---- MODULE Spec2Model ----
(***************************************************************************)
(* Verification model of the imap_smart_sorter backend: the cancellable    *)
(* scan controllers (rescan_control.py, scan_control.py), the scan pass    *)
(* and per-message handler (imap_worker.py) and the classifier's           *)
(* canonicalisation and threshold logic (classifier.py).                   *)
(*                                                                         *)
(* The controllers run on one asyncio event loop.  The loop is modelled    *)
(* as the FIFO queue of ready handles that asyncio keeps: a coroutine runs *)
(* from one suspension point to the next as one atomic step, call_soon     *)
(* appends to the queue, and events from outside the loop (a request       *)
(* arriving, a thread-pool call completing) append at the tail at any time.*)
(***************************************************************************)
EXTENDS Integers, Sequences, FiniteSets, TLC

VARIABLES
    rcTask,      \* RescanController._task: 0 (None) or the id of a task
    rcStatus,    \* RescanController._status (RescanStatus)
    rTasks,      \* the asyncio tasks created by RescanController.run
    rCalls,      \* the run()/stop() coroutines of the callers
    rReady,      \* the event loop's queue of ready handles (one-shot controller)
    scTask,      \* ScanController._task
    scStatus,    \* ScanController._status (ScanStatus)
    sTasks,      \* the asyncio tasks created by ScanController.start
    sCalls,      \* the start()/stop() coroutines of the callers
    sReady,      \* the event loop's queue of ready handles (continuous controller)
    sPasses,     \* scan passes begun by the continuous controller so far
    sStopped,    \* a stop() has returned true and no start() has returned true since
    catalog,     \* the folder templates of the catalog (llm_config.json)
    cls,         \* the call of classify_with_model in progress, or its result
    settings,    \* the move mode and the analysis module in force
    location,    \* the folder each message of the mailbox is in
    processed,   \* the Processed table: (folder, UID) rows
    suggestions, \* the Suggestion table, by message_uid
    filter_hits, \* the FilterHit table: rows per message
    profiles,    \* the FolderProfile table
    pass,        \* the scan pass of each process
    manual,      \* the manual move request in progress, or its result
    scans,       \* scan passes begun so far
    requests,    \* manual move requests served so far
    filters,     \* the keyword filter rules in force (keyword_filters.json)
    evaluation,  \* the latest evaluation of the filters under these rules
    cfgFile,     \* the catalog written to llm_config.json, by the number of its write
    cfgCache,    \* the lru_cache of get_folder_templates and get_context_tag_guidelines
    cfgWriter,   \* the thread serving a catalog update
    cfgReads     \* the threads reading the catalog through the cached getters

rvars == <<rcTask, rcStatus, rTasks, rCalls, rReady>>
svars == <<scTask, scStatus, sTasks, sCalls, sReady, sPasses, sStopped>>
cvars == <<catalog, cls>>
wvars == <<settings, location, processed, suggestions, filter_hits, profiles, pass, manual,
           scans, requests>>
fvars == <<filters, evaluation>>
gvars == <<cfgFile, cfgCache, cfgWriter, cfgReads>>
vars == <<rvars, svars, cvars, wvars, fvars, gvars>>

(***************************************************************************)
(* Bounds of the model.                                                    *)
(***************************************************************************)
MaxCalls == 3      \* run()/stop() calls made on the one-shot controller
MaxCount == 1      \* largest processed-count a scan pass returns
MaxScanCalls == 3  \* start()/stop() calls made on the continuous controller
MaxPasses == 2     \* scan passes the continuous controller begins

CallIds == 1..MaxCalls
None == 0

(***************************************************************************)
(* Folder arguments.  Names are strings; Strip is str.strip() on the names *)
(* the model uses.                                                         *)
(***************************************************************************)
Strip(name) ==
    CASE name = " INBOX" -> "INBOX"
      [] name = " "      -> ""
      [] OTHER           -> name

RECURSIVE NormalizeFrom(_, _)
NormalizeFrom(folders, acc) ==
    IF folders = <<>> THEN acc
    ELSE LET value == Strip(Head(folders))
         IN  IF value = "" \/ (\E i \in 1..Len(acc) : acc[i] = value)
             THEN NormalizeFrom(Tail(folders), acc)
             ELSE NormalizeFrom(Tail(folders), Append(acc, value))

\* RescanController._normalize_folders / ScanController._normalize_folders
NormalizeFolders(folders) == NormalizeFrom(folders, <<>>)

FolderArgs == { <<>>, <<" INBOX", " ", "INBOX", "Work">> }

(***************************************************************************)
(* The one-shot controller.                                                *)
(***************************************************************************)
RescanStatusInit ==
    [ active |-> FALSE, folders |-> <<>>, started_at |-> None,
      finished_at |-> None, last_result_count |-> -1,
      last_error |-> "none", cancelled |-> FALSE ]

NoTask == [ st |-> "none", out |-> "none", count |-> -1, mustCancel |-> FALSE,
            phase |-> 0, waiters |-> <<>> ]

\* inflight records, for the properties, the tasks that were in flight when the
\* call took its first step
NoCall == [ kind |-> "none", pc |-> "idle", arg |-> <<>>, task |-> None,
            result |-> "none", count |-> -1, inflight |-> {} ]

RInit ==
    /\ rcTask = None
    /\ rcStatus = RescanStatusInit
    /\ rTasks = [t \in CallIds |-> NoTask]
    /\ rCalls = [c \in CallIds |-> NoCall]
    /\ rReady = <<>>

\* asyncio.Task.done()
TaskDone(t) == rTasks[t].st = "done"
\* a task that was created and has not finished
Unfinished(t) == rTasks[t].st \in {"ready", "waiting"}

\* tasks that are unfinished and that no stop() has asked to cancel
Inflight == {t \in CallIds : Unfinished(t) /\ ~rTasks[t].mustCancel}

\* A request handler reaches controller.run(folders) or controller.stop():
\* the coroutine's first step is queued on the loop.
RApiCall(c, kind, arg) ==
    /\ rCalls[c].pc = "idle"
    /\ \A d \in CallIds : d < c => rCalls[d].pc # "idle"
    /\ rCalls' = [rCalls EXCEPT ![c] = [NoCall EXCEPT !.kind = kind, !.pc = "queued",
                                                        !.arg = arg]]
    /\ rReady' = Append(rReady, <<"call", c>>)
    /\ UNCHANGED <<rcTask, rcStatus, rTasks>>

\* RescanController._finalize applied to a status record
Finalize(status, cancelled, stamp) ==
    [status EXCEPT !.active = FALSE,
                   !.cancelled = status.cancelled \/ cancelled,
                   !.finished_at = stamp]

\* RescanController.run up to `await task`
RunBegin(c) ==
    /\ rReady # <<>> /\ Head(rReady) = <<"call", c>>
    /\ rCalls[c].kind = "run"
    /\ IF rcTask # None /\ ~TaskDone(rcTask)
       THEN /\ rCalls' = [rCalls EXCEPT ![c].pc = "done", ![c].result = "Busy",
                                         ![c].inflight = Inflight]
            /\ rReady' = Tail(rReady)
            /\ UNCHANGED <<rcTask, rcStatus, rTasks>>
       ELSE /\ rcStatus' = [ active |-> TRUE, cancelled |-> FALSE, started_at |-> c,
                             finished_at |-> None, last_error |-> "none",
                             last_result_count |-> -1,
                             folders |-> NormalizeFolders(rCalls[c].arg) ]
            /\ rTasks' = [rTasks EXCEPT ![c] = [NoTask EXCEPT !.st = "ready",
                                                             !.waiters = <<c>>]]
            /\ rcTask' = c
            /\ rReady' = Append(Tail(rReady), <<"step", c>>)
            /\ rCalls' = [rCalls EXCEPT ![c].pc = "awaiting", ![c].task = c,
                                         ![c].inflight = Inflight]

\* the outcome of run() from the outcome of the awaited task
RunOutcome(out) ==
    CASE out = "ok"        -> "Count"
      [] out = "cancelled" -> "Cancelled"
      [] OTHER             -> "Error"

\* RescanController.run from the wake-up after `await task` to its return
RunResume(c) ==
    /\ rReady # <<>> /\ Head(rReady) = <<"wake", c>>
    /\ rCalls[c].kind = "run"
    /\ LET t == rCalls[c].task
       IN  /\ rCalls' = [rCalls EXCEPT ![c].pc = "done",
                                       ![c].result = RunOutcome(rTasks[t].out),
                                       ![c].count = rTasks[t].count]
           /\ rcStatus' = Finalize(rcStatus, FALSE, c)
           /\ rcTask' = None
    /\ rReady' = Tail(rReady)
    /\ UNCHANGED rTasks

\* the outcome of stop() after `await task`: CancelledError is swallowed, any
\* other exception of the task leaves stop() through its finally block
StopOutcome(out) == IF out = "error" THEN "Error" ELSE "True"

\* asyncio.Task.cancel() followed by `await task` on a task that is not done
CancelTask(task, c) ==
    [task EXCEPT !.mustCancel = TRUE, !.st = "ready",
                 !.waiters = Append(task.waiters, c)]

\* RescanController.stop up to `await task` (to its return when the task is
\* already done or there is none)
StopBegin(c) ==
    /\ rReady # <<>> /\ Head(rReady) = <<"call", c>>
    /\ rCalls[c].kind = "stop"
    /\ rcTask' = None
    /\ IF rcTask = None
       THEN /\ rCalls' = [rCalls EXCEPT ![c].pc = "done", ![c].result = "False",
                                         ![c].inflight = Inflight]
            /\ rReady' = Tail(rReady)
            /\ UNCHANGED <<rcStatus, rTasks>>
       ELSE IF TaskDone(rcTask)
       THEN /\ rCalls' = [rCalls EXCEPT ![c].pc = "done", ![c].task = rcTask,
                                         ![c].result = StopOutcome(rTasks[rcTask].out),
                                         ![c].inflight = Inflight]
            /\ rcStatus' = Finalize([rcStatus EXCEPT !.cancelled = TRUE], TRUE, c)
            /\ rReady' = Tail(rReady)
            /\ UNCHANGED rTasks
       ELSE /\ rcStatus' = [rcStatus EXCEPT !.cancelled = TRUE]
            /\ rTasks' = [rTasks EXCEPT ![rcTask] = CancelTask(rTasks[rcTask], c)]
            /\ rReady' = IF rTasks[rcTask].st = "waiting"
                         THEN Append(Tail(rReady), <<"step", rcTask>>)
                         ELSE Tail(rReady)
            /\ rCalls' = [rCalls EXCEPT ![c].pc = "awaiting", ![c].task = rcTask,
                                         ![c].inflight = Inflight]

\* RescanController.stop from the wake-up after `await task` to its return
StopResume(c) ==
    /\ rReady # <<>> /\ Head(rReady) = <<"wake", c>>
    /\ rCalls[c].kind = "stop"
    /\ rCalls' = [rCalls EXCEPT ![c].pc = "done",
                                ![c].result = StopOutcome(rTasks[rCalls[c].task].out)]
    /\ rcStatus' = Finalize(rcStatus, TRUE, c)
    /\ rcTask' = None
    /\ rReady' = Tail(rReady)
    /\ UNCHANGED rTasks

RECURSIVE WakeAll(_)
\* Future.__schedule_callbacks: one call_soon per waiter, in registration order
WakeAll(waiters) ==
    IF waiters = <<>> THEN <<>>
    ELSE <<(<<"wake", Head(waiters)>>)>> \o WakeAll(Tail(waiters))

\* the task ends: its result is set and its waiters are scheduled
FinishTask(t, out, count) ==
    /\ rTasks' = [rTasks EXCEPT ![t].st = "done", ![t].out = out, ![t].count = count,
                                ![t].waiters = <<>>]
    /\ rReady' = Tail(rReady) \o WakeAll(rTasks[t].waiters)

\* One step of the task running RescanController._execute: from one
\* suspension point of one_shot_scan to the next, or to the end.
\* phase counts the awaits passed: the message fetch, the folder listing,
\* then the awaits of handle_message.
RExecuteStep(t) ==
    /\ rReady # <<>> /\ Head(rReady) = <<"step", t>>
    /\ rTasks[t].st = "ready"
    /\ IF rTasks[t].mustCancel
       THEN \* CancelledError is thrown into the coroutine and re-raised
            /\ FinishTask(t, "cancelled", -1)
            /\ UNCHANGED <<rcTask, rcStatus, rCalls>>
       ELSE \/ \* the scan reaches its next await
               /\ rTasks' = [rTasks EXCEPT ![t].st = "waiting",
                                           ![t].phase = IF @ < 2 THEN @ + 1 ELSE 2]
               /\ rReady' = Tail(rReady)
               /\ UNCHANGED <<rcTask, rcStatus, rCalls>>
            \/ \* one_shot_scan returns its count
               /\ rTasks[t].phase = 2
               /\ \E n \in 0..MaxCount :
                    /\ rcStatus' = [rcStatus EXCEPT !.last_result_count = n]
                    /\ FinishTask(t, "ok", n)
               /\ UNCHANGED <<rcTask, rCalls>>
            \/ \* one_shot_scan raises an ordinary exception
               /\ rcStatus' = [rcStatus EXCEPT !.last_error = "boom"]
               /\ FinishTask(t, "error", -1)
               /\ UNCHANGED <<rcTask, rCalls>>

\* The awaited thread-pool or network call of a waiting task completes: the
\* task's wake-up is queued.
RIoDone(t) ==
    /\ rTasks[t].st = "waiting"
    /\ rTasks' = [rTasks EXCEPT ![t].st = "ready"]
    /\ rReady' = Append(rReady, <<"step", t>>)
    /\ UNCHANGED <<rcTask, rcStatus, rCalls>>

RNext ==
    \/ /\ UNCHANGED <<svars, cvars, wvars, fvars, gvars>>
       /\ \E c \in CallIds, kind \in {"run", "stop"}, arg \in FolderArgs :
                /\ kind = "stop" => arg = <<>>
                /\ RApiCall(c, kind, arg)
    \/ /\ UNCHANGED <<svars, cvars, wvars, fvars, gvars>>
       /\ \E c \in CallIds : RunBegin(c)
    \/ /\ UNCHANGED <<svars, cvars, wvars, fvars, gvars>>
       /\ \E c \in CallIds : RunResume(c)
    \/ /\ UNCHANGED <<svars, cvars, wvars, fvars, gvars>>
       /\ \E c \in CallIds : StopBegin(c)
    \/ /\ UNCHANGED <<svars, cvars, wvars, fvars, gvars>>
       /\ \E c \in CallIds : StopResume(c)
    \/ /\ UNCHANGED <<svars, cvars, wvars, fvars, gvars>>
       /\ \E t \in CallIds : RExecuteStep(t)
    \/ /\ UNCHANGED <<svars, cvars, wvars, fvars, gvars>>
       /\ \E t \in CallIds : RIoDone(t)


(***************************************************************************)
(* The continuous controller.                                              *)
(***************************************************************************)
PollInterval == 30
ScanCallIds == 1..MaxScanCalls

ScanStatusInit ==
    [ active |-> FALSE, folders |-> <<>>, poll_interval |-> PollInterval,
      last_started_at |-> None, last_finished_at |-> None,
      last_error |-> "none", last_result_count |-> -1 ]

\* at is the suspension point of ScanController._run: "fresh" (created, not
\* started), "scan" (inside one_shot_scan), "sleep" (asyncio.sleep)
NoScanTask == [ st |-> "none", out |-> "none", mustCancel |-> FALSE, at |-> "fresh",
                phase |-> 0, folders |-> <<>>, waiters |-> <<>> ]

NoScanCall == [ kind |-> "none", pc |-> "idle", arg |-> <<>>, task |-> None,
                result |-> "none" ]

SInit ==
    /\ scTask = None
    /\ scStatus = ScanStatusInit
    /\ sTasks = [t \in ScanCallIds |-> NoScanTask]
    /\ sCalls = [c \in ScanCallIds |-> NoScanCall]
    /\ sReady = <<>>
    /\ sPasses = 0
    /\ sStopped = FALSE

SUnfinished(t) == sTasks[t].st \in {"ready", "waiting"}

\* A request handler reaches scan_controller.start(folders) or .stop()
SApiCall(c, kind, arg) ==
    /\ sCalls[c].pc = "idle"
    /\ \A d \in ScanCallIds : d < c => sCalls[d].pc # "idle"
    /\ sCalls' = [sCalls EXCEPT ![c] = [NoScanCall EXCEPT !.kind = kind, !.pc = "queued",
                                                            !.arg = arg]]
    /\ sReady' = Append(sReady, <<"call", c>>)
    /\ UNCHANGED <<scTask, scStatus, sTasks, sPasses, sStopped>>

\* ScanController.start: it has no suspension point
ScanStart(c) ==
    /\ sReady # <<>> /\ Head(sReady) = <<"call", c>>
    /\ sCalls[c].kind = "start"
    /\ IF scTask # None /\ sTasks[scTask].st # "done"
       THEN /\ sCalls' = [sCalls EXCEPT ![c].pc = "done", ![c].result = "False"]
            /\ sReady' = Tail(sReady)
            /\ UNCHANGED <<scTask, scStatus, sTasks, sStopped>>
       ELSE /\ scStatus' = [scStatus EXCEPT !.active = TRUE,
                                            !.folders = NormalizeFolders(sCalls[c].arg),
                                            !.last_error = "none",
                                            !.last_result_count = -1,
                                            !.poll_interval = PollInterval]
            /\ sTasks' = [sTasks EXCEPT ![c] =
                            [NoScanTask EXCEPT !.st = "ready",
                                               !.folders = NormalizeFolders(sCalls[c].arg)]]
            /\ scTask' = c
            /\ sReady' = Append(Tail(sReady), <<"step", c>>)
            /\ sCalls' = [sCalls EXCEPT ![c].pc = "done", ![c].result = "True"]
            /\ sStopped' = FALSE
    /\ UNCHANGED sPasses

\* the finally block of ScanController.stop
ScanStopFinally(status) == [status EXCEPT !.active = FALSE, !.folders = <<>>]

\* ScanController.stop up to `await task` (to its return when there is no task
\* or the task has already ended)
ScanStopBegin(c) ==
    /\ sReady # <<>> /\ Head(sReady) = <<"call", c>>
    /\ sCalls[c].kind = "stop"
    /\ IF scTask = None
       THEN /\ sCalls' = [sCalls EXCEPT ![c].pc = "done", ![c].result = "False"]
            /\ sReady' = Tail(sReady)
            /\ UNCHANGED <<scTask, scStatus, sTasks, sStopped>>
       ELSE IF sTasks[scTask].st = "done"
       THEN /\ sCalls' = [sCalls EXCEPT ![c].pc = "done", ![c].task = scTask,
                                         ![c].result = StopOutcome(sTasks[scTask].out)]
            /\ scStatus' = ScanStopFinally(scStatus)
            /\ scTask' = None
            /\ sReady' = Tail(sReady)
            /\ sStopped' = (sStopped \/ StopOutcome(sTasks[scTask].out) = "True")
            /\ UNCHANGED sTasks
       ELSE /\ sTasks' = [sTasks EXCEPT ![scTask] = CancelTask(sTasks[scTask], c)]
            /\ sReady' = IF sTasks[scTask].st = "waiting"
                         THEN Append(Tail(sReady), <<"step", scTask>>)
                         ELSE Tail(sReady)
            /\ sCalls' = [sCalls EXCEPT ![c].pc = "awaiting", ![c].task = scTask]
            /\ scTask' = None
            /\ UNCHANGED <<scStatus, sStopped>>
    /\ UNCHANGED sPasses

\* ScanController.stop from the wake-up after `await task` to its return
ScanStopResume(c) ==
    /\ sReady # <<>> /\ Head(sReady) = <<"wake", c>>
    /\ sCalls[c].kind = "stop"
    /\ sCalls' = [sCalls EXCEPT ![c].pc = "done",
                                ![c].result = StopOutcome(sTasks[sCalls[c].task].out)]
    /\ scStatus' = ScanStopFinally(scStatus)
    /\ sStopped' = (sStopped \/ StopOutcome(sTasks[sCalls[c].task].out) = "True")
    /\ sReady' = Tail(sReady)
    /\ UNCHANGED <<scTask, sTasks, sPasses>>

\* database.get_monitored_folders as _resolve_targets may read it
MonitoredChoices == { <<>>, <<"Work">> }

\* ScanController._resolve_targets
ResolveTargets(folders, configured) ==
    IF folders # <<>> THEN folders
    ELSE IF configured # <<>> THEN configured
    ELSE <<"INBOX">>

SFinishTask(t, out) ==
    /\ sTasks' = [sTasks EXCEPT ![t].st = "done", ![t].out = out, ![t].waiters = <<>>]
    /\ sReady' = Tail(sReady) \o WakeAll(sTasks[t].waiters)

\* the task suspends in asyncio.sleep(interval) after a pass
SleepAfterPass(t) ==
    /\ sTasks' = [sTasks EXCEPT ![t].st = "waiting", ![t].at = "sleep", ![t].phase = 0]
    /\ sReady' = Tail(sReady)

\* One step of the task running ScanController._run, from one suspension
\* point to the next or to the task's end.
SRunStep(t) ==
    /\ sReady # <<>> /\ Head(sReady) = <<"step", t>>
    /\ sTasks[t].st = "ready"
    /\ UNCHANGED <<scTask, sCalls, sStopped>>
    /\ IF sTasks[t].mustCancel
       THEN \* CancelledError is thrown at the suspension point; a coroutine that
            \* never started runs none of its finally blocks
            /\ scStatus' =
                 CASE sTasks[t].at = "fresh" -> scStatus
                   [] sTasks[t].at = "scan"  ->
                        [scStatus EXCEPT !.last_finished_at = sPasses, !.active = FALSE]
                   [] OTHER -> [scStatus EXCEPT !.active = FALSE]
            /\ SFinishTask(t, "cancelled")
            /\ UNCHANGED sPasses
       ELSE IF sTasks[t].at \in {"fresh", "sleep"}
       THEN \/ \* the top of the loop: a new pass begins and reaches its first await
               /\ sPasses < MaxPasses
               /\ sPasses' = sPasses + 1
               /\ \E configured \in MonitoredChoices :
                    scStatus' = [scStatus EXCEPT
                                   !.poll_interval = PollInterval,
                                   !.folders = ResolveTargets(sTasks[t].folders, configured),
                                   !.last_started_at = sPasses + 1]
               /\ sTasks' = [sTasks EXCEPT ![t].st = "waiting", ![t].at = "scan",
                                           ![t].phase = 1]
               /\ sReady' = Tail(sReady)
            \/ \* resolving the interval or the targets raises: the task ends
               /\ scStatus' = [scStatus EXCEPT !.active = FALSE]
               /\ SFinishTask(t, "error")
               /\ UNCHANGED sPasses
       ELSE \/ \* the pass reaches its next await
               /\ sTasks' = [sTasks EXCEPT ![t].st = "waiting",
                                           ![t].phase = IF @ < 2 THEN @ + 1 ELSE 2]
               /\ sReady' = Tail(sReady)
               /\ UNCHANGED <<scStatus, sPasses>>
            \/ \* one_shot_scan returns its count
               /\ sTasks[t].phase = 2
               /\ \E n \in 0..MaxCount :
                    scStatus' = [scStatus EXCEPT !.last_result_count = n,
                                                 !.last_error = "none",
                                                 !.last_finished_at = sPasses]
               /\ SleepAfterPass(t)
               /\ UNCHANGED sPasses
            \/ \* one_shot_scan raises an ordinary exception
               /\ scStatus' = [scStatus EXCEPT !.last_error = "boom",
                                               !.last_finished_at = sPasses]
               /\ SleepAfterPass(t)
               /\ UNCHANGED sPasses

\* The awaited thread-pool or network call of the pass completes.
SIoDone(t) ==
    /\ sTasks[t].st = "waiting" /\ sTasks[t].at = "scan"
    /\ sTasks' = [sTasks EXCEPT ![t].st = "ready"]
    /\ sReady' = Append(sReady, <<"step", t>>)
    /\ UNCHANGED <<scTask, scStatus, sCalls, sPasses, sStopped>>

\* The poll interval has elapsed.
STimerFired(t) ==
    /\ sTasks[t].st = "waiting" /\ sTasks[t].at = "sleep"
    /\ sTasks' = [sTasks EXCEPT ![t].st = "ready"]
    /\ sReady' = Append(sReady, <<"step", t>>)
    /\ UNCHANGED <<scTask, scStatus, sCalls, sPasses, sStopped>>

SNext ==
    \/ /\ UNCHANGED <<rvars, cvars, wvars, fvars, gvars>>
       /\ \E c \in ScanCallIds, kind \in {"start", "stop"}, arg \in FolderArgs :
                /\ kind = "stop" => arg = <<>>
                /\ SApiCall(c, kind, arg)
    \/ /\ UNCHANGED <<rvars, cvars, wvars, fvars, gvars>>
       /\ \E c \in ScanCallIds : ScanStart(c)
    \/ /\ UNCHANGED <<rvars, cvars, wvars, fvars, gvars>>
       /\ \E c \in ScanCallIds : ScanStopBegin(c)
    \/ /\ UNCHANGED <<rvars, cvars, wvars, fvars, gvars>>
       /\ \E c \in ScanCallIds : ScanStopResume(c)
    \/ /\ UNCHANGED <<rvars, cvars, wvars, fvars, gvars>>
       /\ \E t \in ScanCallIds : SRunStep(t)
    \/ /\ UNCHANGED <<rvars, cvars, wvars, fvars, gvars>>
       /\ \E t \in ScanCallIds : SIoDone(t)
    \/ /\ UNCHANGED <<rvars, cvars, wvars, fvars, gvars>>
       /\ \E t \in ScanCallIds : STimerFired(t)

\* The scheduling of the continuous controller: the event loop runs the
\* handle at the head of its queue, the awaited calls of a pass complete and
\* the timer of asyncio.sleep fires.
SLoopRuns ==
    /\ UNCHANGED <<rvars, cvars, wvars, fvars, gvars>>
    /\ \/ \E c \in ScanCallIds : ScanStart(c) \/ ScanStopBegin(c) \/ ScanStopResume(c)
       \/ \E t \in ScanCallIds : SRunStep(t)

SCallsComplete ==
    /\ UNCHANGED <<rvars, cvars, wvars, fvars, gvars>>
    /\ \E t \in ScanCallIds : SIoDone(t) \/ STimerFired(t)

(***************************************************************************)
(* The classifier (classifier.py).  A folder name is the sequence of its   *)
(* path segments ("Finance/Invoices" is <<"Finance", "Invoices">>), so     *)
(* splitting and joining on "/" are sequence operations.  The string       *)
(* primitives on single segments (lower-casing, the token regular          *)
(* expressions, difflib's similarity ratio) are tabulated for the segments *)
(* the model uses, with the values the Python functions return.            *)
(* Scores and ratings are integers: a score s is 10000*s and a rating r    *)
(* is 100*r, so that rating = score*100 reads as equality of the two       *)
(* integers.  A raw number x of an LLM reply or of the embedding ranking   *)
(* is <<100*x>>, and <<>> when it is missing or not a number.              *)
(***************************************************************************)
MaxSuggestions == 3        \* S.MAX_SUGGESTIONS
MinNewFolderScore == 7800  \* S.MIN_NEW_FOLDER_SCORE = 0.78
AutoThreshold == 9200      \* S.AUTO_THRESHOLD = 0.92
MinMatchScore == 5000      \* S.MIN_MATCH_SCORE: a rating of 50 on the 0-100 scale
MaxTagTotal == 3           \* max_tag_total() with no tag slots and no guidelines

Min(a, b) == IF a < b THEN a ELSE b
Max(a, b) == IF a > b THEN a ELSE b

LowerSeg ==
    ("INBOX" :> "inbox") @@ ("Inbox" :> "inbox") @@ ("Finance" :> "finance")
    @@ ("finance" :> "finance") @@ ("Invoices" :> "invoices")
    @@ ("Invoice" :> "invoice") @@ ("Taxes" :> "taxes") @@ ("taxes" :> "taxes")
    @@ ("Projects" :> "projects") @@ ("Projekte" :> "projekte")
    @@ ("Newsletter" :> "newsletter") @@ ("Work" :> "work") @@ ("News" :> "news")
    @@ ("unmatched" :> "unmatched") @@ ("Unmatched" :> "unmatched")
    @@ ("Misc" :> "misc")

\* the tokens _catalog_signature keeps of one segment: the lower-cased
\* segment split on the characters of [\\s/] (a backslash, the letter s, a
\* slash), cleaned of non-alphanumerics, without empty tokens and "inbox"
SegTokens ==
    ("INBOX" :> <<>>) @@ ("Inbox" :> <<>>) @@ ("Finance" :> <<"finance">>)
    @@ ("finance" :> <<"finance">>) @@ ("Invoices" :> <<"invoice">>)
    @@ ("Invoice" :> <<"invoice">>) @@ ("Taxes" :> <<"taxe">>)
    @@ ("taxes" :> <<"taxe">>) @@ ("Projects" :> <<"project">>)
    @@ ("Projekte" :> <<"projekte">>) @@ ("Newsletter" :> <<"new", "letter">>)
    @@ ("Work" :> <<"work">>) @@ ("News" :> <<"new">>)
    @@ ("unmatched" :> <<"unmatched">>) @@ ("Unmatched" :> <<"unmatched">>)
    @@ ("Misc" :> <<"mi", "c">>)

\* SequenceMatcher(None, signature, catalog_sig).ratio(), times 10000
RatioTable ==
    ("finance" :> (("finance" :> 10000) @@ ("finance invoice" :> 6364) @@ ("finance taxe" :> 7368) @@ ("project" :> 1429)))
    @@ ("finance invoice" :> (("finance" :> 6364) @@ ("finance invoice" :> 10000) @@ ("finance taxe" :> 6667) @@ ("project" :> 909)))
    @@ ("finance taxe" :> (("finance" :> 7368) @@ ("finance invoice" :> 6667) @@ ("finance taxe" :> 10000) @@ ("project" :> 2105)))
    @@ ("invoice" :> (("finance" :> 5714) @@ ("finance invoice" :> 6364) @@ ("finance taxe" :> 4211) @@ ("project" :> 2857)))
    @@ ("mi c" :> (("finance" :> 3636) @@ ("finance invoice" :> 3158) @@ ("finance taxe" :> 2500) @@ ("project" :> 1818)))
    @@ ("new" :> (("finance" :> 4000) @@ ("finance invoice" :> 2222) @@ ("finance taxe" :> 2667) @@ ("project" :> 2000)))
    @@ ("new letter" :> (("finance" :> 2353) @@ ("finance invoice" :> 3200) @@ ("finance taxe" :> 3636) @@ ("project" :> 2353)))
    @@ ("new letter invoice" :> (("finance" :> 3200) @@ ("finance invoice" :> 6061) @@ ("finance taxe" :> 2667) @@ ("project" :> 1600)))
    @@ ("project" :> (("finance" :> 1429) @@ ("finance invoice" :> 1818) @@ ("finance taxe" :> 2105) @@ ("project" :> 10000)))
    @@ ("projekte" :> (("finance" :> 1333) @@ ("finance invoice" :> 1739) @@ ("finance taxe" :> 3000) @@ ("project" :> 8000)))
    @@ ("taxe" :> (("finance" :> 3636) @@ ("finance invoice" :> 2105) @@ ("finance taxe" :> 5000) @@ ("project" :> 1818)))
    @@ ("unmatched" :> (("finance" :> 5000) @@ ("finance invoice" :> 3333) @@ ("finance taxe" :> 3810) @@ ("project" :> 1250)))
    @@ ("work" :> (("finance" :> 0) @@ ("finance invoice" :> 1053) @@ ("finance taxe" :> 0) @@ ("project" :> 1818)))

\* _beautify_segment on single-word labels
BeautifySegment ==
    ("INBOX" :> "Inbox") @@ ("Inbox" :> "Inbox") @@ ("Finance" :> "Finance")
    @@ ("finance" :> "Finance") @@ ("Invoices" :> "Invoices")
    @@ ("Invoice" :> "Invoice") @@ ("Taxes" :> "Taxes") @@ ("taxes" :> "Taxes")
    @@ ("Projects" :> "Projects") @@ ("Projekte" :> "Projekte")
    @@ ("Newsletter" :> "Newsletter") @@ ("Work" :> "Work") @@ ("News" :> "News")
    @@ ("unmatched" :> "Unmatched") @@ ("Unmatched" :> "Unmatched")
    @@ ("Misc" :> "Misc")

\* a.lower() in b.lower(), for the segments of the model: equal strings, and
\* "new" inside "newsletter"
IsSubstring(a, b) ==
    \/ LowerSeg[a] = LowerSeg[b]
    \/ <<LowerSeg[a], LowerSeg[b]>> \in {<<"news", "newsletter">>, <<"invoice", "invoices">>}

LowerName(name) == [i \in 1..Len(name) |-> LowerSeg[name[i]]]

CatalogSignature(name) ==
    LET RECURSIVE Tokens(_)
        Tokens(n) == IF n = <<>> THEN <<>> ELSE SegTokens[n[1]] \o Tokens(Tail(n))
        RECURSIVE Join(_)
        Join(t) == IF t = <<>> THEN ""
                   ELSE IF Len(t) = 1 THEN t[1]
                   ELSE t[1] \o " " \o Join(Tail(t))
    IN  Join(Tokens(name))

\* The catalog is the sequence of folder templates, each a top-level name
\* with its children.
TopLevelFolderNames(templates) == [i \in 1..Len(templates) |-> templates[i].name]

FolderCatalogPaths(templates) ==
    LET RECURSIVE Paths(_)
        Paths(i) ==
            IF i > Len(templates) THEN <<>>
            ELSE <<<<templates[i].name>>>>
                 \o [k \in 1..Len(templates[i].children) |->
                        <<templates[i].name, templates[i].children[k]>>]
                 \o Paths(i + 1)
    IN  Paths(1)

CatalogIndex(templates) ==
    LET paths == FolderCatalogPaths(templates)
    IN  [i \in 1..Len(paths) |-> [path |-> paths[i], sig |-> CatalogSignature(paths[i])]]

NoMatch == [path |-> <<>>, rating |-> 0]

\* the least index of a non-empty set of indices
First(Indices) == CHOOSE i \in Indices : \A j \in Indices : i <= j

\* the variants _match_catalog_path tries: the name, the name without its
\* leading inbox segments, and every proper suffix, each once (by lower case)
IterVariants(segments) ==
    LET RECURSIVE DropInbox(_)
        DropInbox(s) == IF s # <<>> /\ LowerSeg[s[1]] = "inbox"
                        THEN DropInbox(Tail(s)) ELSE s
        Seen(acc, v) == \E i \in 1..Len(acc) : LowerName(acc[i]) = LowerName(v)
        Add(acc, v) == IF v = <<>> \/ Seen(acc, v) THEN acc ELSE Append(acc, v)
        RECURSIVE Suffixes(_, _)
        Suffixes(acc, start) ==
            IF start >= Len(segments) THEN acc
            ELSE Suffixes(Add(acc, SubSeq(segments, start + 1, Len(segments))), start + 1)
    IN  IF segments = <<>> THEN <<>>
        ELSE Suffixes(Add(<<segments>>, DropInbox(segments)), 1)

MatchCatalogPath(name, index) ==
    LET Exact(n) == {i \in 1..Len(index) : LowerName(index[i].path) = n}
        Hit(i) == [path |-> index[i].path, rating |-> 10000]
        RECURSIVE Scan(_, _, _, _, _)
        Better(variants, v, i, best_path, best_score, ratio) ==
            IF ratio > best_score
            THEN IF ratio >= 9990 THEN Hit(i)
                 ELSE Scan(variants, v, i + 1, index[i].path, ratio)
            ELSE Scan(variants, v, i + 1, best_path, best_score)
        Compare(variants, v, i, best_path, best_score, signature, lowered) ==
            IF signature = "" THEN Scan(variants, v + 1, 1, best_path, best_score)
            ELSE IF index[i].sig = "" THEN Scan(variants, v, i + 1, best_path, best_score)
            ELSE IF LowerName(index[i].path) = lowered THEN Hit(i)
            ELSE Better(variants, v, i, best_path, best_score,
                        RatioTable[signature][index[i].sig])
        Scan(variants, v, i, best_path, best_score) ==
            IF v > Len(variants)
            THEN IF best_path = <<>> \/ best_score < MinMatchScore
                 THEN NoMatch
                 ELSE [path |-> best_path, rating |-> best_score]
            ELSE IF i > Len(index)
            THEN Scan(variants, v + 1, 1, best_path, best_score)
            ELSE Compare(variants, v, i, best_path, best_score,
                         CatalogSignature(variants[v]), LowerName(variants[v]))
        Lookup(exact) ==
            IF exact # {} THEN Hit(First(exact))
            ELSE Scan(IterVariants(name), 1, 1, <<>>, 0)
    IN  IF name = <<>> \/ index = <<>> THEN NoMatch
        ELSE Lookup(Exact(LowerName(name)))

NormaliseScoreValue(raw) ==
    LET Both(value) == [score |-> value, rating |-> value]
    IN  IF raw = <<>> THEN Both(0)
        ELSE IF raw[1] > 100 THEN Both(Max(0, Min(raw[1], 10000)))
        ELSE Both(Max(0, Min(raw[1], 100)) * 100)

\* sorted(rows, key=rating, reverse=True): stable, descending
SortedByRating(rows) ==
    LET Insert(rest, x, k) == SubSeq(rest, 1, k) \o <<x>> \o SubSeq(rest, k + 1, Len(rest))
        Place(rest, x) ==
            Insert(rest, x, Cardinality({i \in 1..Len(rest) : rest[i].rating >= x.rating}))
        RECURSIVE Sort(_)
        Sort(s) == IF s = <<>> THEN <<>>
                   ELSE Place(Sort(SubSeq(s, 1, Len(s) - 1)), s[Len(s)])
    IN  Sort(rows)

CanonicalizeRanked(items, templates) ==
    LET Clamp(value) == Max(0, Min(value, 10000))
        Capped(s) == SubSeq(s, 1, Min(Len(s), MaxSuggestions))
        Trimmed(head) ==
            [i \in 1..Len(head) |->
                [name |-> head[i].name, score |-> Clamp(head[i].score),
                 rating |-> Clamp(head[i].rating)]]
        Entry(canonical, final_rating) ==
            [name |-> canonical, score |-> final_rating, rating |-> final_rating]
        Replace(normalised, existing, cleaned_entry) ==
            IF existing = {} THEN Append(normalised, cleaned_entry)
            ELSE IF normalised[First(existing)].rating < cleaned_entry.rating
            THEN [normalised EXCEPT ![First(existing)] = cleaned_entry]
            ELSE normalised
        Put(normalised, cleaned_entry) ==
            Replace(normalised,
                    {k \in 1..Len(normalised) : normalised[k].name = cleaned_entry.name},
                    cleaned_entry)
        Keep(normalised, entry, match) ==
            IF match = NoMatch THEN normalised
            ELSE Put(normalised, Entry(match.path, Max(Clamp(entry.rating), match.rating)))
        RECURSIVE Collect(_, _, _)
        Collect(i, normalised, catalog_index) ==
            IF i > Len(items) THEN normalised
            ELSE Collect(i + 1,
                         Keep(normalised, items[i],
                              MatchCatalogPath(items[i].name, catalog_index)),
                         catalog_index)
        Result(ordered) == IF ordered # <<>> THEN Capped(ordered) ELSE Trimmed(Capped(items))
        Canonical(catalog_index) ==
            IF catalog_index = <<>> THEN Trimmed(Capped(items))
            ELSE Result(SortedByRating(Collect(1, <<>>, catalog_index)))
    IN  IF items = <<>> THEN <<>> ELSE Canonical(CatalogIndex(templates))

\* ranked is the embedding ranking: a sequence of <<name, raw score>>
FallbackRanked(ranked, templates) ==
    LET Item(name, normalised) ==
            [name |-> name, score |-> normalised.score, rating |-> normalised.rating]
        RawItems(head) ==
            [i \in 1..Len(head) |-> Item(head[i][1], NormaliseScoreValue(head[i][2]))]
    IN  CanonicalizeRanked(RawItems(SubSeq(ranked, 1, Min(Len(ranked), MaxSuggestions))),
                           templates)

\* payload is the reply's "ranked" list: entries [name, raw]; an entry
\* without a usable name has name <<>>
ParseRanked(payload, fallback, templates) ==
    LET Item(name, normalised) ==
            [name |-> name, score |-> normalised.score, rating |-> normalised.rating]
        RECURSIVE Keep(_)
        Keep(i) ==
            IF i > Len(payload) THEN <<>>
            ELSE IF payload[i].name = <<>> THEN Keep(i + 1)
            ELSE <<Item(payload[i].name, NormaliseScoreValue(payload[i].raw))>> \o Keep(i + 1)
        Result(canonical) ==
            IF canonical # <<>> THEN canonical ELSE FallbackRanked(fallback, templates)
    IN  Result(CanonicalizeRanked(Keep(1), templates))

FindTopLevelForLabel(label, templates) ==
    LET Hits(needle) ==
            {i \in 1..Len(templates) :
                \/ LowerSeg[templates[i].name] = needle
                \/ \E k \in 1..Len(templates[i].children) :
                       LowerSeg[templates[i].children[k]] = needle}
        Pick(hits) == IF hits = {} THEN "" ELSE templates[First(hits)].name
    IN  IF label = "" THEN "" ELSE Pick(Hits(LowerSeg[label]))

EnsureTopLevelParent(path, templates) ==
    LET Same(top_levels, first_segment) ==
            {i \in 1..Len(top_levels) : LowerSeg[top_levels[i]] = first_segment}
        Part(top_levels, first_segment) ==
            {i \in 1..Len(top_levels) :
                \/ IsSubstring(first_segment, top_levels[i])
                \/ IsSubstring(top_levels[i], first_segment)}
        Pick(top_levels, same, part) ==
            IF same # {} THEN <<top_levels[First(same)]>>
            ELSE IF part # {} THEN <<top_levels[First(part)]>>
            ELSE <<path[1]>>
        Ensure(top_levels) ==
            IF top_levels = <<>> THEN path
            ELSE IF path = <<>> THEN <<top_levels[1]>>
            ELSE Pick(top_levels, Same(top_levels, LowerSeg[path[1]]),
                      Part(top_levels, path[1]))
    IN  Ensure(TopLevelFolderNames(templates))

\* A category is a record; a field the dict does not hold is "" (label,
\* status), <<>> (matched_folder) or -1 (confidence, rating).  None is the
\* record with no field.
NoCategory ==
    [label |-> "", matched_folder |-> <<>>, confidence |-> -1, rating |-> -1, status |-> ""]

\* payload: the reply's category as [label, matched, raw]
ParseCategory(payload, templates) ==
    LET Parsed(normalised) ==
            [label |-> payload.label,
             matched_folder |-> payload.matched,
             confidence |-> IF payload.raw = <<>> THEN -1 ELSE normalised.score,
             rating |-> IF payload.raw = <<>> THEN -1 ELSE normalised.rating,
             status |-> ""]
        ByLabel(by_folder, index) ==
            IF by_folder # NoMatch THEN by_folder
            ELSE IF payload.label # "" THEN MatchCatalogPath(<<payload.label>>, index)
            ELSE NoMatch
        CatalogMatch(index) == ByLabel(MatchCatalogPath(payload.matched, index), index)
        Final(result, match_rating) ==
            Max(IF result.rating = -1 THEN match_rating ELSE result.rating, match_rating)
        Matched(result, canonical, final_rating) ==
            [result EXCEPT !.matched_folder = canonical, !.label = canonical[1],
                           !.rating = final_rating, !.confidence = final_rating]
        Resolved(result, resolved_top_level) ==
            IF resolved_top_level # ""
            THEN [result EXCEPT !.label = resolved_top_level, !.matched_folder = <<>>]
            ELSE result
        Canonical(result, catalog_match) ==
            IF catalog_match # NoMatch
            THEN Matched(result, catalog_match.path, Final(result, catalog_match.rating))
            ELSE Resolved(result, FindTopLevelForLabel(payload.label, templates))
        Result(result) ==
            IF payload.label # "" /\ LowerSeg[payload.label] = "unmatched" THEN result
            ELSE Canonical(result, CatalogMatch(CatalogIndex(templates)))
    IN  Result(Parsed(NormaliseScoreValue(payload.raw)))

CategoryParentSegment(category, templates) ==
    LET ByLabel(configured) ==
            IF configured # "" THEN <<configured>> ELSE <<BeautifySegment[category.label]>>
    IN  IF category.matched_folder # <<>>
        THEN EnsureTopLevelParent(category.matched_folder, templates)
        ELSE IF category.label # ""
        THEN ByLabel(FindTopLevelForLabel(category.label, templates))
        ELSE <<>>

\* A proposal is [parent, name, full_path, score_hint]; None has name "".
NoProposal == [parent |-> <<>>, name |-> "", full_path |-> <<>>, score_hint |-> 0]

\* proposal: the reply's [parent, name] (NoProposal when it is not a dict)
NormaliseProposal(proposal, parent_hint, top_score, templates) ==
    LET Built(parent) ==
            [parent |-> parent, name |-> proposal.name,
             full_path |-> Append(parent, proposal.name), score_hint |-> top_score]
        Parent(ensured_parent, top_levels) ==
            IF ensured_parent # <<>> THEN ensured_parent
            ELSE IF top_levels # <<>> THEN <<top_levels[1]>>
            ELSE <<"Projects">>
    IN  IF proposal = NoProposal \/ top_score >= MinNewFolderScore \/ proposal.name = ""
        THEN NoProposal
        ELSE Built(Parent(EnsureTopLevelParent(IF proposal.parent # <<>>
                                               THEN proposal.parent ELSE parent_hint,
                                               templates),
                          TopLevelFolderNames(templates)))

AlignProposalWithMatches(proposal, ranked, category, parent_hint, templates) ==
    LET Named == {i \in 1..Len(ranked) : ranked[i].name # <<>>}
        ByHint(preferred_parent) ==
            IF preferred_parent = <<>> /\ parent_hint # <<>>
            THEN EnsureTopLevelParent(parent_hint, templates)
            ELSE preferred_parent
        ByRanked(preferred_parent) ==
            IF preferred_parent = <<>> /\ Named # {}
            THEN EnsureTopLevelParent(ranked[First(Named)].name, templates)
            ELSE preferred_parent
        Aligned(preferred_parent) ==
            IF preferred_parent # <<>> /\ proposal.name # ""
            THEN [proposal EXCEPT !.parent = preferred_parent,
                                  !.full_path = Append(preferred_parent, proposal.name)]
            ELSE proposal
        Unless(aligned, full_path) ==
            IF full_path # <<>> /\ \E i \in Named : LowerName(ranked[i].name) = full_path
            THEN NoProposal
            ELSE aligned
        Checked(aligned) == Unless(aligned, LowerName(aligned.full_path))
    IN  IF proposal = NoProposal THEN NoProposal
        ELSE Checked(Aligned(ByHint(ByRanked(CategoryParentSegment(category, templates)))))

\* _has_placeholder_token(word, ignore_prefix=True) on the tag words of the
\* model: the first "-"-separated segment is not looked at
PlaceholderWords == {"kunde-NAME", "datum-YYYY"}

\* _parse_tags on a list of loose tag words, with no tag slot configured
ParseTags(payload) ==
    LET RECURSIVE Extras(_, _)
        Extras(i, extras) ==
            IF i > Len(payload) THEN extras
            ELSE IF (\E k \in 1..Len(extras) : extras[k] = payload[i])
                    \/ payload[i] \in PlaceholderWords
            THEN Extras(i + 1, extras)
            ELSE Extras(i + 1, Append(extras, payload[i]))
        Capped(ordered_tags) == SubSeq(ordered_tags, 1, Min(Len(ordered_tags), MaxTagTotal))
    IN  Capped(Extras(1, <<>>))

\* classify_with_model without the clearing of refined_ranked below the
\* match threshold
ClassifyWithModelKeeping(ranked, chat, parent_hint, templates) ==
    LET Fallback ==
            [ranked |-> FallbackRanked(ranked, templates), proposal |-> NoProposal,
             category |-> NoCategory, tags |-> <<>>]
        Unmatched(refined_ranked, category, best_rating) ==
            [ranked |-> refined_ranked,
             proposal |-> NoProposal,
             category |-> [label |-> IF category.label = "" THEN "unmatched"
                                     ELSE category.label,
                           matched_folder |-> <<>>,
                           confidence |-> 0,
                           rating |-> best_rating,
                           status |-> "unmatched"],
             tags |-> <<>>]
        Matched(refined_ranked, category, proposal) ==
            [ranked |-> refined_ranked,
             proposal |-> AlignProposalWithMatches(proposal, refined_ranked, category,
                                                   parent_hint, templates),
             category |-> category,
             tags |-> ParseTags(chat.tags)]
        Decide(refined_ranked, category, best_rating) ==
            IF best_rating < MinMatchScore
            THEN Unmatched(refined_ranked, category, best_rating)
            ELSE Matched(refined_ranked, category,
                         NormaliseProposal(chat.proposal, parent_hint, best_rating, templates))
        Best(ratings) == CHOOSE r \in ratings : \A q \in ratings : q <= r
        Refined(refined_ranked) ==
            Decide(refined_ranked, ParseCategory(chat.category, templates),
                   Best({refined_ranked[i].rating : i \in 1..Len(refined_ranked)} \cup {0}))
    IN  IF chat.kind # "json" THEN Fallback
        ELSE Refined(ParseRanked(chat.ranked, ranked, templates))

\* chat is the outcome of the chat call: kind "nomodel" (no classifier
\* model configured), "failed" (_chat raised), "nocontent", "unparsable",
\* or "json" with the parsed reply's ranked, category, proposal and tags.
ClassifyWithModel(ranked, chat, parent_hint, templates) ==
    LET Fallback ==
            [ranked |-> FallbackRanked(ranked, templates), proposal |-> NoProposal,
             category |-> NoCategory, tags |-> <<>>]
        Unmatched(category, best_rating) ==
            [ranked |-> <<>>,
             proposal |-> NoProposal,
             category |-> [label |-> IF category.label = "" THEN "unmatched"
                                     ELSE category.label,
                           matched_folder |-> <<>>,
                           confidence |-> 0,
                           rating |-> best_rating,
                           status |-> "unmatched"],
             tags |-> <<>>]
        Matched(refined_ranked, category, proposal) ==
            [ranked |-> refined_ranked,
             proposal |-> AlignProposalWithMatches(proposal, refined_ranked, category,
                                                   parent_hint, templates),
             category |-> category,
             tags |-> ParseTags(chat.tags)]
        Decide(refined_ranked, category, best_rating) ==
            IF best_rating < MinMatchScore THEN Unmatched(category, best_rating)
            ELSE Matched(refined_ranked, category,
                         NormaliseProposal(chat.proposal, parent_hint, best_rating, templates))
        Best(ratings) == CHOOSE r \in ratings : \A q \in ratings : q <= r
        Refined(refined_ranked) ==
            Decide(refined_ranked, ParseCategory(chat.category, templates),
                   Best({refined_ranked[i].rating : i \in 1..Len(refined_ranked)} \cup {0}))
    IN  IF chat.kind # "json" THEN Fallback
        ELSE Refined(ParseRanked(chat.ranked, ranked, templates))

(***************************************************************************)
(* Calls of classify_with_model.  A call receives the embedding ranking of *)
(* the message and the source folder as parent hint, awaits the chat call  *)
(* and computes its result from the reply and the catalog of that moment.  *)
(***************************************************************************)
MaxRankedLen == 2   \* candidates in the embedding ranking
MaxReplyLen == 2    \* entries in the "ranked" list of an LLM reply

FullCatalog ==
    << [name |-> "Finance", children |-> <<"Invoices", "Taxes">>],
       [name |-> "Projects", children |-> <<>>] >>

Catalogs == {<<>>, FullCatalog}

RECURSIVE SeqsUpTo(_, _)
SeqsUpTo(S, n) ==
    IF n = 0 THEN {<<>>}
    ELSE LET shorter == SeqsUpTo(S, n - 1)
         IN  shorter \cup {Append(s, x) : s \in {t \in shorter : Len(t) = n - 1}, x \in S}

\* folder-profile names with their cosine scores
RankedPairs ==
    { <<<<"INBOX", "Finance", "Invoices">>, <<30>>>>,
      <<<<"Projekte">>, <<95>>>>,
      <<<<"Work">>, <<60>>>> }

ReplyEntries ==
    { [name |-> <<"Finance", "Invoices">>, raw |-> <<4000>>],
      [name |-> <<"finance", "taxes">>, raw |-> <<60>>],
      [name |-> <<"Invoices">>, raw |-> <<4000>>],
      [name |-> <<"Newsletter">>, raw |-> <<4000>>],
      [name |-> <<"Newsletter">>, raw |-> <<9500>>],
      [name |-> <<>>, raw |-> <<>>] }

NoCategoryPayload == [label |-> "", matched |-> <<>>, raw |-> <<>>]

\* the category, proposal and tags of a reply
ReplyExtras ==
    { [category |-> NoCategoryPayload, proposal |-> NoProposal, tags |-> <<>>],
      [category |-> [label |-> "Finance", matched |-> <<>>, raw |-> <<>>],
       proposal |-> [NoProposal EXCEPT !.name = "News"],
       tags |-> <<"urgent", "kunde-NAME", "urgent">>],
      [category |-> [label |-> "unmatched", matched |-> <<>>, raw |-> <<2000>>],
       proposal |-> [NoProposal EXCEPT !.name = "Invoices", !.parent = <<"Finance">>],
       tags |-> <<"NAME">>],
      [category |-> [label |-> "Misc", matched |-> <<"Taxes">>, raw |-> <<70>>],
       proposal |-> [NoProposal EXCEPT !.name = "Taxes", !.parent = <<"finance", "Taxes">>],
       tags |-> <<"urgent">>] }

NoReply(kind) ==
    [kind |-> kind, ranked |-> <<>>, category |-> NoCategoryPayload,
     proposal |-> NoProposal, tags |-> <<>>]

ChatOutcomes ==
    {NoReply(k) : k \in {"nomodel", "failed", "nocontent", "unparsable"}}
    \cup {[kind |-> "json", ranked |-> r, category |-> x.category,
           proposal |-> x.proposal, tags |-> x.tags] :
              r \in SeqsUpTo(ReplyEntries, MaxReplyLen), x \in ReplyExtras}

NoResult == [ranked |-> <<>>, proposal |-> NoProposal, category |-> NoCategory, tags |-> <<>>]

NoClassifyCall ==
    [phase |-> "idle", ranked |-> <<>>, parent_hint |-> <<>>, chat |-> NoReply("nomodel"),
     templates |-> <<>>, result |-> NoResult]

CInit ==
    /\ catalog = FullCatalog
    /\ cls = NoClassifyCall

\* update_catalog: the configuration API replaces the folder templates
UpdateCatalog(templates) ==
    /\ catalog # templates
    /\ catalog' = templates
    /\ UNCHANGED cls

\* handle_message calls classify_with_model, which runs up to the chat call
ClassifyBegin(ranked, parent_hint) ==
    /\ cls.phase = "idle"
    /\ cls' = [NoClassifyCall EXCEPT !.phase = "chat", !.ranked = ranked,
                                !.parent_hint = parent_hint]
    /\ UNCHANGED catalog

\* the chat call ends and classify_with_model returns
ClassifyEnd(chat) ==
    /\ cls.phase = "chat"
    /\ cls' = [cls EXCEPT !.phase = "done", !.chat = chat, !.templates = catalog,
                          !.result = ClassifyWithModel(cls.ranked, chat,
                                                       cls.parent_hint, catalog)]
    /\ UNCHANGED catalog

\* the caller takes the result
ClassifyTaken ==
    /\ cls.phase = "done"
    /\ cls' = NoClassifyCall
    /\ UNCHANGED catalog

CNext ==
    \/ /\ UNCHANGED <<rvars, svars, wvars, fvars, gvars>>
       /\ \E t \in Catalogs : UpdateCatalog(t)
    \/ /\ UNCHANGED <<rvars, svars, wvars, fvars, gvars>>
       /\ \E r \in SeqsUpTo(RankedPairs, MaxRankedLen), h \in {<<"INBOX">>, <<"Work">>} :
              ClassifyBegin(r, h)
    \/ /\ UNCHANGED <<rvars, svars, wvars, fvars, gvars>>
       /\ \E c \in ChatOutcomes : ClassifyEnd(c)
    \/ /\ UNCHANGED <<rvars, svars, wvars, fvars, gvars>>
       /\ ClassifyTaken

(***************************************************************************)
(* The keyword filters (keyword_filters.py).  A date is the integer        *)
(* YYYYMMDD, a received time is <<date, hour>> in UTC and <<>> when the    *)
(* message carries none; a bound of a window that is not set is None.  The *)
(* rules in force are the tuple get_filter_rules() returns.                *)
(***************************************************************************)
MaxRules == 2   \* rules in the filter configuration

\* _term_matches(term, content): term.casefold() in content.casefold(), on
\* the terms and field contents of the model
TermMatches(term, content) ==
    <<term, content>> \in {<<"invoice", "Invoice 42">>,
                           <<"invoice", "INVOICE due 2024-01-20">>,
                           <<"urgent", "Urgent">>}

\* _extract_dates(body) on the bodies of the model
ExtractDates(content) ==
    IF content = "INVOICE due 2024-01-20" THEN <<20240120>> ELSE <<>>

\* _date_in_range with both bounds of the window exclusive
DateInRangeExclusive(rule, received, content_dates) ==
    LET has_window == rule.date_after # None \/ rule.date_before # None
        Own == IF received # <<>> THEN <<received[1]>> ELSE <<>>
        NotPast(candidate) == ~(received # <<>> /\ candidate < received[1])
        Future == IF rule.include_future_dates /\ content_dates # <<>>
                  THEN SelectSeq(content_dates, NotPast)
                  ELSE <<>>
        Passes(candidate) ==
            /\ ~(rule.date_after # None /\ candidate <= rule.date_after)
            /\ ~(rule.date_before # None /\ candidate >= rule.date_before)
        AnyPasses(candidates) ==
            IF candidates = <<>> THEN ~has_window
            ELSE \E k \in 1..Len(candidates) : Passes(candidates[k])
    IN  AnyPasses(Own \o Future)

DateInRange(rule, received, content_dates) ==
    LET has_window == rule.date_after # None \/ rule.date_before # None
        Own == IF received # <<>> THEN <<received[1]>> ELSE <<>>
        NotPast(candidate) == ~(received # <<>> /\ candidate < received[1])
        Future == IF rule.include_future_dates /\ content_dates # <<>>
                  THEN SelectSeq(content_dates, NotPast)
                  ELSE <<>>
        Passes(candidate) ==
            /\ ~(rule.date_after # None /\ candidate < rule.date_after)
            /\ ~(rule.date_before # None /\ candidate > rule.date_before)
        AnyPasses(candidates) ==
            IF candidates = <<>> THEN ~has_window
            ELSE \E k \in 1..Len(candidates) : Passes(candidates[k])
    IN  AnyPasses(Own \o Future)

\* the term condition with mode `all` read as mode `any`
ModeSatisfiedAsAny(mode, matches, terms) == matches # <<>>

\* the two `continue` conditions on the matched terms, negated
ModeSatisfied(mode, matches, terms) ==
    /\ ~(mode = "all" /\ Len(matches) < Len(terms))
    /\ ~(mode = "any" /\ matches = <<>>)

\* what evaluate_filters returns: None, or the rule (by its position in the
\* rules) with the matched terms
NoFilterMatch == [rule |-> 0, matched_terms |-> <<>>]

\* the body of the loop of evaluate_filters for the rule at position i
EvaluateRule(rules, i, msg) ==
    LET rule == rules[i]
        combined == [subject |-> msg.subject, sender |-> msg.sender, body |-> msg.body]
        Found(term) ==
            \E k \in 1..Len(rule.fields) :
                /\ combined[rule.fields[k]] # ""
                /\ TermMatches(term, combined[rule.fields[k]])
        RECURSIVE Matches(_)
        Matches(t) ==
            IF t > Len(rule.terms) THEN <<>>
            ELSE (IF Found(rule.terms[t]) THEN <<rule.terms[t]>> ELSE <<>>) \o Matches(t + 1)
        content_dates == IF rule.include_future_dates THEN ExtractDates(msg.body) ELSE <<>>
        Result(matches) ==
            IF rule.terms # <<>> /\ ~ModeSatisfied(rule.mode, matches, rule.terms)
            THEN NoFilterMatch
            ELSE [rule |-> i,
                  matched_terms |-> IF matches # <<>> THEN matches ELSE rule.terms]
    IN  IF ~rule.enabled THEN NoFilterMatch
        ELSE IF ~DateInRange(rule, msg.received, content_dates) THEN NoFilterMatch
        ELSE Result(Matches(1))

\* evaluate_filters returning the last rule that applies
EvaluateFiltersLast(rules, msg) ==
    LET hits == {i \in 1..Len(rules) : EvaluateRule(rules, i, msg) # NoFilterMatch}
    IN  IF hits = {} THEN NoFilterMatch
        ELSE EvaluateRule(rules, CHOOSE i \in hits : \A j \in hits : j <= i, msg)

EvaluateFilters(rules, msg) ==
    LET RECURSIVE Scan(_)
        Next(i, found) == IF found # NoFilterMatch THEN found ELSE Scan(i + 1)
        Scan(i) == IF i > Len(rules) THEN NoFilterMatch
                   ELSE Next(i, EvaluateRule(rules, i, msg))
    IN  Scan(1)

\* the rules a configuration is made of
FilterRules ==
    LET Rule(name, enabled, mode, terms, fields, after, before, future) ==
            [name |-> name, enabled |-> enabled, mode |-> mode, terms |-> terms,
             fields |-> fields, date_after |-> after, date_before |-> before,
             include_future_dates |-> future]
        Everywhere == <<"subject", "sender", "body">>
        Both == <<"invoice", "urgent">>
    IN  {Rule("all", TRUE, "all", Both, Everywhere, None, None, FALSE),
         Rule("any", TRUE, "any", Both, <<"subject">>, None, None, FALSE),
         Rule("off", FALSE, "all", <<>>, Everywhere, None, None, FALSE),
         Rule("january", TRUE, "all", <<>>, Everywhere, 20240101, 20240131, FALSE),
         Rule("due", TRUE, "all", <<>>, Everywhere, 20240101, 20240131, TRUE)}

\* the messages the filters are evaluated on
FilterMessages ==
    [subject : {"Hello", "Urgent"},
     sender : {"billing@shop.example"},
     body : {"", "Invoice 42", "INVOICE due 2024-01-20"},
     received : {<<>>, <<20231231, 23>>, <<20240101, 0>>, <<20240131, 23>>,
                 <<20240201, 0>>}]

NoEvaluation == [message |-> <<>>, result |-> NoFilterMatch]

FInit ==
    /\ filters = <<>>
    /\ evaluation = NoEvaluation

\* update_filter_config: the configuration API replaces the rules
UpdateFilterConfig(rules) ==
    /\ filters # rules
    /\ filters' = rules
    /\ evaluation' = NoEvaluation

\* handle_message evaluates the filters on a message
EvaluateMessage(msg) ==
    /\ evaluation' = [message |-> msg, result |-> EvaluateFilters(filters, msg)]
    /\ UNCHANGED filters

FNext ==
    \/ /\ UNCHANGED <<rvars, svars, cvars, wvars, gvars>>
       /\ \E rules \in SeqsUpTo(FilterRules, MaxRules) : UpdateFilterConfig(rules)
    \/ /\ UNCHANGED <<rvars, svars, cvars, wvars, gvars>>
       /\ \E msg \in FilterMessages : EvaluateMessage(msg)

(***************************************************************************)
(* The scan pass and the message handler (imap_worker.py).  Two passes can *)
(* be in progress at once: one of the continuous controller ("scan") and   *)
(* one of the one-shot controller ("rescan"); each is a coroutine that     *)
(* runs atomically between its awaits.  The IMAP calls run in threads, the *)
(* embedding and chat calls are HTTP requests: each outcome is chosen when *)
(* the awaiting coroutine resumes.  The mailbox tags keep their defaults   *)
(* (no protected and no processed tag), and no request asks for a dry run. *)
(***************************************************************************)
Procs == {"scan", "rescan"}

MaxScans == 2      \* scan passes begun, over both processes
MaxManualMoves == 1   \* manual move requests served

\* the messages of the mailbox, as (folder, UID); UIDs are per folder
Msgs == {<<"INBOX", 1>>, <<"INBOX", 2>>}

\* thread_headers(msg)["in_reply_to"] is set
InReplyTo(m) == m[2] = 2

\* _derive_leaf(subject, sender) and the beautified _sender_slug(sender) of
\* the messages
SubjectLeaf(m) == IF m[1] = "INBOX" THEN "Invoices" ELSE "Taxes"

SenderParent(m) == "Newsletter"

\* the folders a pass is started on
PassFolders == {<<"INBOX">>}

MoveModes == {"CONFIRM", "AUTO"}

AnalysisModules == {"STATIC", "HYBRID", "LLM_PURE"}

analysis_module_uses_llm(module) == module \in {"HYBRID", "LLM_PURE"}

analysis_module_uses_filters(module) == module \in {"STATIC", "HYBRID"}

\* match.rule.target_folder of the keyword rule of the model
RuleTarget == <<"Newsletter">>

\* str(exc) of a failed IMAP move
MoveError == "move failed"

(***************************************************************************)
(* The database tables (database.py).                                      *)
(***************************************************************************)
processed_uids_by_folder(table, folders) ==
    {row \in table : \E i \in 1..Len(folders) : folders[i] = row[1]}

known_suggestion_uids(table) == DOMAIN table

\* save_suggestion: one row per message_uid; an existing row keeps the
\* columns the new Suggestion does not set
save_suggestion(table, sug) ==
    LET Row(uid) ==
            IF uid # sug.message_uid THEN table[uid]
            ELSE IF uid \in DOMAIN table
            THEN [sug EXCEPT !.decision = table[uid].decision,
                             !.move_error = table[uid].move_error]
            ELSE sug
    IN  [uid \in DOMAIN table \cup {sug.message_uid} |-> Row(uid)]

mark_moved(table, uid) ==
    [u \in DOMAIN table |->
        IF u = uid THEN [table[u] EXCEPT !.move_status = "moved", !.status = "decided"]
        ELSE table[u]]

mark_failed_skipped(table, uid, err) == table

mark_failed(table, uid, err) ==
    [u \in DOMAIN table |->
        IF u = uid
        THEN [table[u] EXCEPT !.move_status = "failed", !.move_error = err,
                              !.status = "error"]
        ELSE table[u]]

record_decision(table, uid, decision) ==
    [u \in DOMAIN table |->
        IF u # uid THEN table[u]
        ELSE IF decision = "reject"
        THEN [table[u] EXCEPT !.decision = decision, !.status = "decided",
                              !.move_status = "rejected"]
        ELSE [table[u] EXCEPT !.decision = decision]]

\* upsert_folder_profile: the table is the sequence of profiles in insertion
\* order, a centroid is the number of embeddings blended into it
upsert_folder_profile(table, name) ==
    IF \E i \in 1..Len(table) : table[i].name = name
    THEN [i \in 1..Len(table) |->
             IF table[i].name = name
             THEN [table[i] EXCEPT !.centroid = table[i].centroid + 1]
             ELSE table[i]]
    ELSE Append(table, [name |-> name, centroid |-> 1])

\* update_profiles_on_accept: embedding is "vector" or "empty"
update_profiles_on_accept(table, folder, embedding) ==
    IF embedding = "vector" THEN upsert_folder_profile(table, folder) ELSE table

(***************************************************************************)
(* The mailbox (mailbox.py).  location[m] is the folder holding message m. *)
(***************************************************************************)
RECURSIVE Ascending(_)
Ascending(uids) ==
    IF uids = {} THEN <<>>
    ELSE LET Rest(least) == <<least>> \o Ascending(uids \ {least})
         IN  Rest(CHOOSE u \in uids : \A v \in uids : u <= v)

\* fetch_recent_messages with a reachable server: per folder, in the order
\* of the folders, the UIDs found there that processed_lookup does not hold
fetch_recent_messages(folders, processed_lookup, mailbox) ==
    LET Eligible(folder) ==
            {m[2] : m \in {x \in Msgs : /\ x[1] = folder
                                        /\ mailbox[x] = <<folder>>
                                        /\ x \notin processed_lookup}}
        InFolder(folder, uids) == [i \in 1..Len(uids) |-> <<folder, uids[i]>>]
        RECURSIVE Payloads(_)
        Payloads(i) ==
            IF i > Len(folders) THEN <<>>
            ELSE InFolder(folders[i], Ascending(Eligible(folders[i]))) \o Payloads(i + 1)
    IN  Payloads(1)

\* move_message(uid, target_folder, src_folder) that did not raise
move_message(mailbox, m, target_folder) ==
    IF mailbox[m] = <<m[1]>> THEN [mailbox EXCEPT ![m] = target_folder] ELSE mailbox

(***************************************************************************)
(* one_shot_scan.  pass[p] is the frame of the pass of process p: its      *)
(* locals and the locals of the handle_message call it is awaiting.        *)
(***************************************************************************)
IdlePass ==
    [pc |-> "idle", folders |-> <<>>, processed_map |-> {}, known_suggestions |-> {},
     messages |-> <<>>, next |-> 1, processed |-> 0,
     match |-> "none", profiles |-> <<>>, embedding |-> "none", ranked_pairs |-> <<>>]

NoManualMove == [pc |-> "idle", uid |-> 0, src_folder |-> "", result |-> "none"]

WInit ==
    /\ settings \in [mode : MoveModes, module : AnalysisModules]
    /\ location = [m \in Msgs |-> <<m[1]>>]
    /\ processed = {}
    /\ suggestions = <<>>
    /\ filter_hits = [m \in Msgs |-> 0]
    /\ profiles = <<>>
    /\ pass = [p \in Procs |-> IdlePass]
    /\ manual = NoManualMove
    /\ scans = 0
    /\ requests = 0

\* one_shot_scan up to its first await: the snapshots of the two tables
PassBegin(p, folders) ==
    /\ pass[p].pc = "idle"
    /\ scans < MaxScans
    /\ scans' = scans + 1
    /\ pass' = [pass EXCEPT ![p] =
                   [IdlePass EXCEPT
                       !.pc = "fetch",
                       !.folders = folders,
                       !.processed_map = processed_uids_by_folder(processed, folders),
                       !.known_suggestions = known_suggestion_uids(suggestions)]]
    /\ UNCHANGED <<settings, location, processed, suggestions, filter_hits, profiles,
                   manual, requests>>

\* fetch_recent_messages returns: it is handed the set of suggestion UIDs
\* where it reads a mapping, and raises on .items() unless the set is empty;
\* with no connection it returns no message
FetchDone(p, connected) ==
    /\ pass[p].pc = "fetch"
    /\ pass' = [pass EXCEPT ![p] =
                   IF pass[p].known_suggestions # {}
                   THEN IdlePass
                   ELSE [@ EXCEPT
                            !.pc = "list",
                            !.messages =
                                IF connected
                                THEN fetch_recent_messages(pass[p].folders,
                                                           pass[p].processed_map, location)
                                ELSE <<>>]]
    /\ UNCHANGED <<settings, location, processed, suggestions, filter_hits, profiles,
                   manual, scans, requests>>

\* list_folders returns (it swallows its errors)
ListDone(p) ==
    /\ pass[p].pc = "list"
    /\ pass' = [pass EXCEPT ![p].pc = "next"]
    /\ UNCHANGED <<settings, location, processed, suggestions, filter_hits, profiles,
                   manual, scans, requests>>

\* the loop is exhausted: return processed
PassReturn(p) ==
    /\ pass[p].pc = "next"
    /\ pass[p].next > Len(pass[p].messages)
    /\ pass' = [pass EXCEPT ![p] = IdlePass]
    /\ UNCHANGED <<settings, location, processed, suggestions, filter_hits, profiles,
                   manual, scans, requests>>

\* handle_message returned: mark_processed, processed += 1, next message
Returned(frame) ==
    [frame EXCEPT !.pc = "next", !.next = @ + 1, !.processed = @ + 1,
                  !.processed_map = @ \cup {frame.messages[frame.next]},
                  !.match = "none", !.profiles = <<>>, !.embedding = "none",
                  !.ranked_pairs = <<>>]

\* handle_message raised, with the failed message counted all the same
RaisedAndCounted(frame) ==
    [frame EXCEPT !.pc = "next", !.next = @ + 1, !.processed = @ + 1,
                  !.match = "none", !.profiles = <<>>, !.embedding = "none",
                  !.ranked_pairs = <<>>]

\* handle_message raised: the exception is logged, next message
Raised(frame) ==
    [frame EXCEPT !.pc = "next", !.next = @ + 1,
                  !.match = "none", !.profiles = <<>>, !.embedding = "none",
                  !.ranked_pairs = <<>>]

\* where handle_message goes once the filters are evaluated, with the
\* match ignored
HandlerEntryIgnoringMatch(match, use_llm) == IF use_llm THEN "embed" ELSE "return"

\* where handle_message goes once the filters are evaluated: "ensure" is
\* the keyword path, "embed" the LLM path
HandlerEntry(match, use_llm) ==
    IF match # "none" THEN "ensure"
    ELSE IF use_llm THEN "embed"
    ELSE "return"

\* the loop body up to the first await of handle_message.  found is what
\* evaluate_filters returns: "none", a rule without tags ("rule") or a rule
\* with one tag ("tagged").
HandleNext(p, found) ==
    /\ pass[p].pc = "next"
    /\ pass[p].next <= Len(pass[p].messages)
    /\ LET frame == pass[p]
           m == frame.messages[frame.next]
           Skipped == m[2] \in frame.known_suggestions \/ m \in frame.processed_map
           match == IF analysis_module_uses_filters(settings.module) THEN found ELSE "none"
           Begun(entry) ==
               IF entry = "return" THEN Returned(frame)
               ELSE [frame EXCEPT
                        !.pc = entry, !.match = match,
                        !.profiles = IF entry = "embed" THEN profiles ELSE <<>>]
           Handle(entry) ==
               /\ pass' = [pass EXCEPT ![p] = Begun(entry)]
               /\ processed' = IF entry = "return" THEN processed \cup {m} ELSE processed
       IN  IF Skipped
           THEN /\ pass' = [pass EXCEPT ![p].next = @ + 1]
                /\ UNCHANGED processed
           ELSE Handle(HandlerEntry(match, analysis_module_uses_llm(settings.module)))
    /\ UNCHANGED <<settings, location, suggestions, filter_hits, profiles, manual, scans,
                   requests>>

\* ensure_folder_path returns or raises, with the failure leaving
\* handle_message as an exception
EnsureDoneRaising(p, ok) ==
    /\ pass[p].pc = "ensure"
    /\ pass' = [pass EXCEPT ![p] = IF ok THEN [@ EXCEPT !.pc = "move"] ELSE Raised(@)]
    /\ UNCHANGED <<settings, location, processed, suggestions, filter_hits, profiles,
                   manual, scans, requests>>

\* ensure_folder_path returns or raises; a failure makes handle_message
\* return
EnsureDone(p, ok) ==
    /\ pass[p].pc = "ensure"
    /\ IF ok
       THEN /\ pass' = [pass EXCEPT ![p].pc = "move"]
            /\ UNCHANGED processed
       ELSE /\ pass' = [pass EXCEPT ![p] = Returned(@)]
            /\ processed' = processed \cup {pass[p].messages[pass[p].next]}
    /\ UNCHANGED <<settings, location, suggestions, filter_hits, profiles, manual, scans,
                   requests>>

\* move_message of the keyword path returns or raises; then the rule's tags
\* are added, or with no tag the filter hit is recorded at once
RuleMoveDone(p, ok) ==
    /\ pass[p].pc = "move"
    /\ LET m == pass[p].messages[pass[p].next]
       IN  IF ~ok
           THEN /\ pass' = [pass EXCEPT ![p] = Raised(@)]
                /\ UNCHANGED <<location, filter_hits, processed>>
           ELSE IF pass[p].match = "tagged"
           THEN /\ pass' = [pass EXCEPT ![p].pc = "tag"]
                /\ location' = move_message(location, m, RuleTarget)
                /\ UNCHANGED <<filter_hits, processed>>
           ELSE /\ pass' = [pass EXCEPT ![p] = Returned(@)]
                /\ location' = move_message(location, m, RuleTarget)
                /\ filter_hits' = [filter_hits EXCEPT ![m] = @ + 1]
                /\ processed' = processed \cup {m}
    /\ UNCHANGED <<settings, suggestions, profiles, manual, scans, requests>>

\* add_message_tag for the rule's tag returns, or raises (no connection);
\* then record_filter_hit
RuleTagDone(p, ok) ==
    /\ pass[p].pc = "tag"
    /\ LET m == pass[p].messages[pass[p].next]
       IN  IF ~ok
           THEN /\ pass' = [pass EXCEPT ![p] = Raised(@)]
                /\ UNCHANGED <<filter_hits, processed>>
           ELSE /\ pass' = [pass EXCEPT ![p] = Returned(@)]
                /\ filter_hits' = [filter_hits EXCEPT ![m] = @ + 1]
                /\ processed' = processed \cup {m}
    /\ UNCHANGED <<settings, location, suggestions, profiles, manual, scans, requests>>

(***************************************************************************)
(* The LLM path of handle_message.                                         *)
(***************************************************************************)
\* score_profiles on the profiles read before the embedding call; in the
\* model the cosine of the profiles in high is 0.95, that of the others 0.30
score_profiles(table, high) ==
    LET Pairs(indices, cosine) ==
            [k \in 1..Len(indices) |-> <<table[indices[k]].name, <<cosine>>>>]
        scores == Pairs(Ascending(high), 95)
                      \o Pairs(Ascending((1..Len(table)) \ high), 30)
    IN  SubSeq(scores, 1, Min(Len(scores), MaxSuggestions))

\* embed returns a vector ("vector") or [] ("empty"), or raises on a reply
\* that is not JSON ("raise"); then classify_with_model is called
EmbedDone(p, outcome, high) ==
    /\ pass[p].pc = "embed"
    /\ high \subseteq 1..Len(pass[p].profiles)
    /\ LET Ranked == IF outcome = "vector" THEN score_profiles(pass[p].profiles, high)
                     ELSE <<>>
       IN  pass' = [pass EXCEPT ![p] =
                       IF outcome = "raise" THEN Raised(@)
                       ELSE [@ EXCEPT !.pc = "classify", !.embedding = outcome,
                                      !.ranked_pairs = Ranked, !.profiles = <<>>]]
    /\ UNCHANGED <<settings, location, processed, suggestions, filter_hits, profiles,
                   manual, scans, requests>>

\* _base_parent_segment
BaseParentSegment(parent_hint, templates) ==
    LET Fallback(fallback_ensured) ==
            IF fallback_ensured # <<>> THEN fallback_ensured ELSE <<"INBOX">>
        Base(ensured) ==
            IF ensured # <<>> THEN ensured
            ELSE Fallback(EnsureTopLevelParent(<<"INBOX">>, templates))
    IN  Base(EnsureTopLevelParent(parent_hint, templates))

\* propose_new_folder_if_needed for message m
propose_new_folder_if_needed(top_score, m, parent_hint, category, templates) ==
    LET Built(parent) ==
            [parent |-> parent, name |-> SubjectLeaf(m),
             full_path |-> Append(parent, SubjectLeaf(m)), score_hint |-> top_score]
        Joined(base_parent, second) ==
            IF second = base_parent THEN base_parent ELSE base_parent \o second
        Second(category_parent) ==
            IF category_parent # <<>> THEN category_parent ELSE <<SenderParent(m)>>
    IN  IF top_score >= MinNewFolderScore THEN NoProposal
        ELSE Built(Joined(BaseParentSegment(parent_hint, templates),
                          Second(CategoryParentSegment(category, templates))))

\* the auto-move condition without the In-Reply-To disjunct
should_auto_move_by_score(mode, match_score, in_reply_to) ==
    mode = "AUTO" /\ match_score >= AutoThreshold

should_auto_move(mode, match_score, in_reply_to) ==
    mode = "AUTO" /\ (match_score >= AutoThreshold \/ in_reply_to)

\* handle_message from save_suggestion to its end, and the loop's
\* bookkeeping.  saved is the table holding the new suggestion; tags_ok:
\* add_message_tag does not raise; move_ok: move_message does not raise.
AutoMove(p, m, saved, refined_ranked, tags, match_score) ==
    \E tags_ok \in BOOLEAN, move_ok \in BOOLEAN :
        LET uid == m[2]
            Done ==
                /\ pass' = [pass EXCEPT ![p] = Returned(@)]
                /\ processed' = processed \cup {m}
        IN  IF settings.mode = "AUTO" /\ tags # <<>> /\ ~tags_ok
            THEN /\ suggestions' = saved
                 /\ pass' = [pass EXCEPT ![p] = Raised(@)]
                 /\ UNCHANGED <<location, profiles, processed>>
            ELSE IF should_auto_move(settings.mode, match_score, InReplyTo(m))
                    /\ refined_ranked # <<>>
            THEN IF move_ok
                 THEN /\ location' = move_message(location, m, refined_ranked[1].name)
                      /\ suggestions' =
                             record_decision(mark_moved(saved, uid), uid, "accept")
                      /\ profiles' =
                             update_profiles_on_accept(profiles, refined_ranked[1].name,
                                                       pass[p].embedding)
                      /\ Done
                 ELSE /\ suggestions' = mark_failed(saved, uid, MoveError)
                      /\ Done
                      /\ UNCHANGED <<location, profiles>>
            ELSE /\ suggestions' = saved
                 /\ Done
                 /\ UNCHANGED <<location, profiles>>

\* handle_message from the return of classify_with_model to save_suggestion
SaveSuggestion(p, m, result) ==
    LET match_score == IF result.ranked # <<>> THEN result.ranked[1].score ELSE 0
        match_rating == IF result.ranked # <<>> THEN result.ranked[1].rating ELSE 0
        Suggestion(proposal) ==
            [message_uid |-> m[2], src_folder |-> m[1], ranked |-> result.ranked,
             proposal |-> proposal, category |-> result.category, tags |-> result.tags,
             status |-> "open", decision |-> "", move_status |-> "pending",
             move_error |-> ""]
        Proposal ==
            IF match_rating >= MinMatchScore /\ result.proposal = NoProposal
            THEN propose_new_folder_if_needed(match_score, m, <<m[1]>>, result.category,
                                              catalog)
            ELSE result.proposal
    IN  AutoMove(p, m, save_suggestion(suggestions, Suggestion(Proposal)), result.ranked,
                 result.tags, match_score)

\* classify_with_model returns; the rest of handle_message has no await
ClassifyDone(p, chat) ==
    /\ pass[p].pc = "classify"
    /\ LET m == pass[p].messages[pass[p].next]
       IN  SaveSuggestion(p, m,
                          ClassifyWithModel(pass[p].ranked_pairs, chat, <<m[1]>>, catalog))
    /\ UNCHANGED <<settings, filter_hits, manual, scans, requests>>

(***************************************************************************)
(* The manual move (app.py): api_move without dry run, which runs in a     *)
(* worker thread.                                                          *)
(***************************************************************************)
ManualTarget == <<"Finance", "Taxes">>

\* _ensure_suggestion, then _perform_move up to the IMAP call
ApiMoveBegin(uid) ==
    /\ manual.pc = "idle"
    /\ requests < MaxManualMoves
    /\ requests' = requests + 1
    /\ manual' =
           IF uid \in DOMAIN suggestions
           THEN [pc |-> "moving", uid |-> uid, src_folder |-> suggestions[uid].src_folder,
                 result |-> "none"]
           ELSE [NoManualMove EXCEPT !.result = "404"]
    /\ UNCHANGED <<settings, location, processed, suggestions, filter_hits, profiles, pass,
                   scans>>

\* move_message returns or raises: mark_moved, or mark_failed and HTTP 500
ApiMoveDone(ok) ==
    /\ manual.pc = "moving"
    /\ IF ok
       THEN /\ location' = move_message(location, <<manual.src_folder, manual.uid>>,
                                        ManualTarget)
            /\ suggestions' = mark_moved(suggestions, manual.uid)
            /\ manual' = [NoManualMove EXCEPT !.result = "ok"]
       ELSE /\ suggestions' = mark_failed(suggestions, manual.uid, MoveError)
            /\ manual' = [NoManualMove EXCEPT !.result = "500"]
            /\ UNCHANGED location
    /\ UNCHANGED <<settings, processed, filter_hits, profiles, pass, scans, requests>>

ReplyHigh == [name |-> <<"Finance", "Invoices">>, raw |-> <<9500>>]

ReplyMid == [name |-> <<"Invoice">>, raw |-> <<4000>>]

\* the replies of the chat call in the scan passes
PassChats ==
    {NoReply("failed"),
     [kind |-> "json", ranked |-> <<ReplyHigh>>, category |-> NoCategoryPayload,
      proposal |-> NoProposal, tags |-> <<>>],
     [kind |-> "json", ranked |-> <<ReplyMid>>, category |-> NoCategoryPayload,
      proposal |-> NoProposal, tags |-> <<"rechnung">>]}

WNext ==
    \/ /\ UNCHANGED <<rvars, svars, cvars, fvars, gvars>>
       /\ \E p \in Procs, folders \in PassFolders : PassBegin(p, folders)
    \/ /\ UNCHANGED <<rvars, svars, cvars, fvars, gvars>>
       /\ \E p \in Procs, connected \in BOOLEAN : FetchDone(p, connected)
    \/ /\ UNCHANGED <<rvars, svars, cvars, fvars, gvars>>
       /\ \E p \in Procs : ListDone(p)
    \/ /\ UNCHANGED <<rvars, svars, cvars, fvars, gvars>>
       /\ \E p \in Procs : PassReturn(p)
    \/ /\ UNCHANGED <<rvars, svars, cvars, fvars, gvars>>
       /\ \E p \in Procs, match \in {"none", "rule", "tagged"} : HandleNext(p, match)
    \/ /\ UNCHANGED <<rvars, svars, cvars, fvars, gvars>>
       /\ \E p \in Procs, ok \in BOOLEAN : EnsureDone(p, ok)
    \/ /\ UNCHANGED <<rvars, svars, cvars, fvars, gvars>>
       /\ \E p \in Procs, ok \in BOOLEAN : RuleMoveDone(p, ok)
    \/ /\ UNCHANGED <<rvars, svars, cvars, fvars, gvars>>
       /\ \E p \in Procs, ok \in BOOLEAN : RuleTagDone(p, ok)
    \/ /\ UNCHANGED <<rvars, svars, cvars, fvars, gvars>>
       /\ \E p \in Procs, outcome \in {"vector", "empty", "raise"},
             high \in SUBSET (1..MaxSuggestions) : EmbedDone(p, outcome, high)
    \/ /\ UNCHANGED <<rvars, svars, cvars, fvars, gvars>>
       /\ \E p \in Procs, chat \in PassChats : ClassifyDone(p, chat)
    \/ /\ UNCHANGED <<rvars, svars, cvars, fvars, gvars>>
       /\ \E uid \in {m[2] : m \in Msgs} : ApiMoveBegin(uid)
    \/ /\ UNCHANGED <<rvars, svars, cvars, fvars, gvars>>
       /\ \E ok \in BOOLEAN : ApiMoveDone(ok)

(***************************************************************************)
(* The message handler on its own: the passes of the continuous controller *)
(* alone, with the catalog edited between the steps and with chat replies  *)
(* that carry folder proposals.                                            *)
(***************************************************************************)
\* the replies of the chat call in the handler's passes
HandlerChats ==
    LET News == [NoProposal EXCEPT !.name = "News", !.parent = <<"Projects">>]
        Invoices == [NoProposal EXCEPT !.name = "Invoices", !.parent = <<"Finance">>]
        JsonReply(ranked, proposal) ==
            [kind |-> "json", ranked |-> ranked, category |-> NoCategoryPayload,
             proposal |-> proposal, tags |-> <<>>]
    IN  {NoReply("failed"),
         JsonReply(<<[name |-> <<"Newsletter">>, raw |-> <<6000>>],
                     [name |-> <<"Work">>, raw |-> <<9500>>]>>, News),
         JsonReply(<<[name |-> <<"INBOX", "Newsletter", "Invoices">>, raw |-> <<6000>>]>>,
                   NoProposal),
         JsonReply(<<ReplyMid>>, Invoices),
         JsonReply(<<ReplyMid>>, News),
         JsonReply(<<ReplyHigh>>, News)}

HNext ==
    \/ /\ UNCHANGED <<rvars, svars, wvars, fvars, gvars>>
       /\ \E t \in Catalogs : UpdateCatalog(t)
    \/ /\ UNCHANGED <<rvars, svars, cvars, fvars, gvars>>
       /\ \E folders \in PassFolders : PassBegin("scan", folders)
    \/ /\ UNCHANGED <<rvars, svars, cvars, fvars, gvars>>
       /\ \E connected \in BOOLEAN : FetchDone("scan", connected)
    \/ /\ UNCHANGED <<rvars, svars, cvars, fvars, gvars>>
       /\ ListDone("scan")
    \/ /\ UNCHANGED <<rvars, svars, cvars, fvars, gvars>>
       /\ PassReturn("scan")
    \/ /\ UNCHANGED <<rvars, svars, cvars, fvars, gvars>>
       /\ \E match \in {"none", "rule", "tagged"} : HandleNext("scan", match)
    \/ /\ UNCHANGED <<rvars, svars, cvars, fvars, gvars>>
       /\ \E ok \in BOOLEAN : EnsureDone("scan", ok)
    \/ /\ UNCHANGED <<rvars, svars, cvars, fvars, gvars>>
       /\ \E ok \in BOOLEAN : RuleMoveDone("scan", ok)
    \/ /\ UNCHANGED <<rvars, svars, cvars, fvars, gvars>>
       /\ \E ok \in BOOLEAN : RuleTagDone("scan", ok)
    \/ /\ UNCHANGED <<rvars, svars, cvars, fvars, gvars>>
       /\ \E outcome \in {"vector", "empty", "raise"},
             high \in SUBSET (1..MaxSuggestions) : EmbedDone("scan", outcome, high)
    \/ /\ UNCHANGED <<rvars, svars, cvars, fvars, gvars>>
       /\ \E chat \in HandlerChats : ClassifyDone("scan", chat)

(***************************************************************************)
(* The passes of the continuous controller on a reachable mailbox, one     *)
(* after the other without end: ScanController._run begins the next pass   *)
(* when the poll interval has elapsed, whether the last pass returned or   *)
(* raised.                                                                 *)
(***************************************************************************)
\* one_shot_scan up to its first await, for the passes past the counted ones
PassRepeat(p, folders) ==
    /\ pass[p].pc = "idle"
    /\ scans = MaxScans
    /\ pass' = [pass EXCEPT ![p] =
                   [IdlePass EXCEPT
                       !.pc = "fetch",
                       !.folders = folders,
                       !.processed_map = processed_uids_by_folder(processed, folders),
                       !.known_suggestions = known_suggestion_uids(suggestions)]]
    /\ UNCHANGED <<settings, location, processed, suggestions, filter_hits, profiles,
                   manual, scans, requests>>

\* the steps of the passes other than the return of classify_with_model
LSteps ==
    \/ /\ UNCHANGED <<rvars, svars, cvars, fvars, gvars>>
       /\ \E folders \in PassFolders : PassBegin("scan", folders)
    \/ /\ UNCHANGED <<rvars, svars, cvars, fvars, gvars>>
       /\ \E folders \in PassFolders : PassRepeat("scan", folders)
    \/ /\ UNCHANGED <<rvars, svars, cvars, fvars, gvars>>
       /\ FetchDone("scan", TRUE)
    \/ /\ UNCHANGED <<rvars, svars, cvars, fvars, gvars>>
       /\ ListDone("scan")
    \/ /\ UNCHANGED <<rvars, svars, cvars, fvars, gvars>>
       /\ PassReturn("scan")
    \/ /\ UNCHANGED <<rvars, svars, cvars, fvars, gvars>>
       /\ \E match \in {"none", "rule", "tagged"} : HandleNext("scan", match)
    \/ /\ UNCHANGED <<rvars, svars, cvars, fvars, gvars>>
       /\ \E ok \in BOOLEAN : EnsureDone("scan", ok)
    \/ /\ UNCHANGED <<rvars, svars, cvars, fvars, gvars>>
       /\ \E ok \in BOOLEAN : RuleMoveDone("scan", ok)
    \/ /\ UNCHANGED <<rvars, svars, cvars, fvars, gvars>>
       /\ \E ok \in BOOLEAN : RuleTagDone("scan", ok)
    \/ /\ UNCHANGED <<rvars, svars, cvars, fvars, gvars>>
       /\ \E outcome \in {"vector", "empty", "raise"},
             high \in SUBSET (1..MaxSuggestions) : EmbedDone("scan", outcome, high)

LNext ==
    \/ LSteps
    \/ /\ UNCHANGED <<rvars, svars, cvars, fvars, gvars>>
       /\ \E chat \in PassChats : ClassifyDone("scan", chat)

\* The chat request of classify_with_model ends, by its timeout at the
\* latest; the condition is enabled exactly while the pass awaits
\* classify_with_model.
ChatCallEnds ==
    /\ pass["scan"].pc = "classify"
    /\ pass' = [pass EXCEPT !["scan"] = Raised(@)]
    /\ UNCHANGED <<rvars, svars, cvars, fvars, gvars, settings, location, processed, suggestions,
                   filter_hits, profiles, manual, scans, requests>>

(***************************************************************************)
(* The cached views of the catalog (configuration.py).  get_folder_templates *)
(* and get_context_tag_guidelines are wrapped in functools.lru_cache; the   *)
(* request handlers that read and write the catalog run in the threads of   *)
(* the server's pool, so a thread can be descheduled between any two of the *)
(* steps below.  A catalog is identified by the number of the write that    *)
(* put it in the file (0 for the file found at start).  get_tag_slots and   *)
(* keyword_filters.get_filter_rules have the shape of get_folder_templates. *)
(***************************************************************************)
MaxWrites == 2    \* catalog updates served
MaxReaders == 2   \* threads reading through the cached getters

Readers == 1..MaxReaders

\* an empty lru_cache
Empty == -1

\* began: the number of writes begun when the read began; quiet: no write
\* was in progress then
NoRead == [pc |-> "idle", fn |-> "none", value |-> Empty, result |-> Empty,
           began |-> 0, quiet |-> FALSE]

GInit ==
    /\ cfgFile = 0
    /\ cfgCache = [templates |-> Empty, guidelines |-> Empty]
    /\ cfgWriter = [pc |-> "idle", writes |-> 0]
    /\ cfgReads = [r \in Readers |-> NoRead]

\* _write_catalog: the file is rewritten
WriteCatalog ==
    /\ cfgWriter.pc = "idle"
    /\ cfgWriter.writes < MaxWrites
    /\ cfgFile' = cfgWriter.writes + 1
    /\ cfgWriter' = [pc |-> "clear_templates", writes |-> cfgWriter.writes + 1]
    /\ UNCHANGED <<cfgCache, cfgReads>>

\* get_folder_templates.cache_clear()
ClearTemplates ==
    /\ cfgWriter.pc = "clear_templates"
    /\ cfgCache' = [cfgCache EXCEPT !.templates = Empty]
    /\ cfgWriter' = [cfgWriter EXCEPT !.pc = "clear_guidelines"]
    /\ UNCHANGED <<cfgFile, cfgReads>>

\* get_context_tag_guidelines.cache_clear(); _write_catalog returns
ClearGuidelines ==
    /\ cfgWriter.pc = "clear_guidelines"
    /\ cfgCache' = [cfgCache EXCEPT !.guidelines = Empty]
    /\ cfgWriter' = [cfgWriter EXCEPT !.pc = "idle"]
    /\ UNCHANGED <<cfgFile, cfgReads>>

\* the wrapper of lru_cache stores a result only under a key that is not in
\* the cache
CacheStore(cached, value) == IF cached = Empty THEN value ELSE cached

\* a thread calls fn: the lookup of the wrapper, and on a miss of
\* get_context_tag_guidelines the lookup of get_folder_templates inside it
ReadBegin(r, fn) ==
    /\ cfgReads[r].pc \in {"idle", "done"}
    /\ LET Begun == [NoRead EXCEPT !.fn = fn, !.began = cfgWriter.writes,
                                   !.quiet = (cfgWriter.pc = "idle")]
       IN  cfgReads' = [cfgReads EXCEPT ![r] =
               IF cfgCache[fn] # Empty
               THEN [Begun EXCEPT !.pc = "done", !.result = cfgCache[fn]]
               ELSE IF fn = "guidelines" /\ cfgCache.templates # Empty
               THEN [Begun EXCEPT !.pc = "store_guidelines", !.value = cfgCache.templates]
               ELSE [Begun EXCEPT !.pc = "load"]]
    /\ UNCHANGED <<cfgFile, cfgCache, cfgWriter>>

\* _load_raw_config returns the catalog that is in the file
LoadRawConfig(r) ==
    /\ cfgReads[r].pc = "load"
    /\ cfgReads' = [cfgReads EXCEPT ![r].pc = "store_templates", ![r].value = cfgFile]
    /\ UNCHANGED <<cfgFile, cfgCache, cfgWriter>>

\* get_folder_templates returns to the wrapper, which stores the result
StoreTemplates(r) ==
    /\ cfgReads[r].pc = "store_templates"
    /\ cfgCache' = [cfgCache EXCEPT !.templates = CacheStore(@, cfgReads[r].value)]
    /\ cfgReads' = [cfgReads EXCEPT ![r] =
           IF @.fn = "templates" THEN [@ EXCEPT !.pc = "done", !.result = cfgReads[r].value]
           ELSE [@ EXCEPT !.pc = "store_guidelines"]]
    /\ UNCHANGED <<cfgFile, cfgWriter>>

\* get_context_tag_guidelines returns to the wrapper, which stores the result
StoreGuidelines(r) ==
    /\ cfgReads[r].pc = "store_guidelines"
    /\ cfgCache' = [cfgCache EXCEPT !.guidelines = CacheStore(@, cfgReads[r].value)]
    /\ cfgReads' = [cfgReads EXCEPT ![r].pc = "done", ![r].result = cfgReads[r].value]
    /\ UNCHANGED <<cfgFile, cfgWriter>>

GNext ==
    \/ /\ UNCHANGED <<rvars, svars, cvars, wvars, fvars>>
       /\ WriteCatalog
    \/ /\ UNCHANGED <<rvars, svars, cvars, wvars, fvars>>
       /\ ClearTemplates
    \/ /\ UNCHANGED <<rvars, svars, cvars, wvars, fvars>>
       /\ ClearGuidelines
    \/ /\ UNCHANGED <<rvars, svars, cvars, wvars, fvars>>
       /\ \E r \in Readers, fn \in {"templates", "guidelines"} : ReadBegin(r, fn)
    \/ /\ UNCHANGED <<rvars, svars, cvars, wvars, fvars>>
       /\ \E r \in Readers : LoadRawConfig(r)
    \/ /\ UNCHANGED <<rvars, svars, cvars, wvars, fvars>>
       /\ \E r \in Readers : StoreTemplates(r)
    \/ /\ UNCHANGED <<rvars, svars, cvars, wvars, fvars>>
       /\ \E r \in Readers : StoreGuidelines(r)

(***************************************************************************)
(* Properties of the controllers.                                          *)
(***************************************************************************)
\* C1: a run() that takes its first step while an earlier run's scan task is
\* unfinished ends with the Busy outcome, creates no task and leaves every
\* field of the status as it was.
C1_RunWhileUnfinishedIsBusy ==
    [][\A c \in CallIds :
          (Inflight # {} /\ RunBegin(c)) =>
              /\ rCalls'[c].result = "Busy"
              /\ rcStatus' = rcStatus
              /\ rTasks' = rTasks]_vars

\* C2: at most one scan task created by a controller is unfinished.
C2_AtMostOneUnfinishedTask ==
    /\ Cardinality(Inflight) <= 1
    /\ Cardinality({t \in ScanCallIds : SUnfinished(t) /\ ~sTasks[t].mustCancel}) <= 1

\* C3: a stop() called while a run's scan task is in flight returns true, the
\* run() that created the task ends with the Cancelled outcome, and once both
\* have returned the status of that run reads cancelled and not active.
C3_StopCancelsInflightRun ==
    \A s \in CallIds :
        (rCalls[s].kind = "stop" /\ rCalls[s].pc = "done") =>
            \A t \in rCalls[s].inflight :
                /\ rCalls[s].result = "True"
                /\ rCalls[t].pc = "done" =>
                     /\ rCalls[t].result = "Cancelled"
                     /\ rcStatus.started_at = t =>
                            (rcStatus.cancelled /\ ~rcStatus.active)

\* C4: after ScanController.stop() has returned true, status.active is false
\* and no scan pass begins until a start() returns true.
C4_NoPassAfterStop ==
    [][sStopped' => (~scStatus'.active /\ sPasses' = sPasses)]_vars

(***************************************************************************)
(* Properties of the classifier.                                           *)
(***************************************************************************)
\* C9: when the chat call fails, classify_with_model returns the embedding
\* ranking unchanged (the same names in the same order with the same scores),
\* no proposal, no category and an empty tag list.
C9_ChatFailureKeepsEmbeddingRanking ==
    (cls.phase = "done" /\ cls.chat.kind = "failed") =>
        /\ Len(cls.result.ranked) = Len(cls.ranked)
        /\ \A i \in 1..Len(cls.ranked) :
               i <= Len(cls.result.ranked) =>
                   /\ cls.result.ranked[i].name = cls.ranked[i][1]
                   /\ cls.result.ranked[i].score = cls.ranked[i][2][1] * 100
        /\ cls.result.proposal = NoProposal
        /\ cls.result.category = NoCategory
        /\ cls.result.tags = <<>>

\* C10: when the reply's ranked list has candidates and each of them carries
\* a rating below the match threshold, classify_with_model returns an empty
\* ranked list, a category with status "unmatched" and no matched folder, and
\* no proposal.
C10_AllBelowThresholdIsUnmatched ==
    ( /\ cls.phase = "done"
      /\ cls.chat.kind = "json"
      /\ cls.chat.ranked # <<>>
      /\ \A i \in 1..Len(cls.chat.ranked) :
             /\ cls.chat.ranked[i].name # <<>>
             /\ NormaliseScoreValue(cls.chat.ranked[i].raw).rating < MinMatchScore )
    => /\ cls.result.ranked = <<>>
       /\ cls.result.category.status = "unmatched"
       /\ cls.result.category.matched_folder = <<>>
       /\ cls.result.proposal = NoProposal


(***************************************************************************)
(* Properties of the scan pass and the message handler.                    *)
(***************************************************************************)
\* the message the handler of process p is working on
Current(p) == pass[p].messages[pass[p].next]

\* process p takes the step in which its handle_message call begins
HandlerBegins(p) ==
    /\ pass[p].pc = "next"
    /\ pass[p].next <= Len(pass[p].messages)
    /\ \/ pass'[p].pc \in {"ensure", "embed"}
       \/ pass'[p].processed = pass[p].processed + 1

\* process p takes the step in which its handle_message call returns
HandlerReturns(p) ==
    /\ pass[p].pc \in {"next", "ensure", "move", "tag", "classify"}
    /\ pass'[p].processed = pass[p].processed + 1

\* process p takes the step from the return of classify_with_model to the
\* end of handle_message
LlmTail(p) == pass[p].pc = "classify" /\ pass'[p].pc = "next"

\* C5: every message is handled to completion at most once, also when a
\* pass of the continuous controller and a run of the one-shot controller
\* overlap: a handle_message call never begins for a message that is marked
\* processed or holds a suggestion, and never returns for a message for
\* which an earlier call has returned (and which is therefore marked
\* processed).
C5_HandledAtMostOnce ==
    [][\A p \in Procs :
          /\ HandlerBegins(p) =>
                 /\ Current(p) \notin processed
                 /\ Current(p)[2] \notin DOMAIN suggestions
          /\ HandlerReturns(p) => Current(p) \notin processed]_vars

\* C6: a handler whose filters returned a match stays on the keyword path
\* (no embedding call, no classification call), and no step it takes
\* changes the Suggestion table, whatever the outcomes of the ensure, move
\* and tagging steps.
C6_KeywordMatchSkipsLlmPath ==
    [][\A p \in Procs :
          /\ pass'[p].match # "none" => pass'[p].pc \in {"ensure", "move", "tag"}
          /\ (pass[p].match # "none" /\ pass'[p] # pass[p]) =>
                 /\ suggestions' = suggestions
                 /\ pass'[p].pc \notin {"embed", "classify"}]_vars

C6_Witness ==
    \E p \in Procs :
        /\ pass[p].match = "tagged"
        /\ pass[p].pc = "tag"
        /\ location[Current(p)] = RuleTarget
        /\ suggestions = <<>>

\* the best candidate's score of a saved suggestion
BestScore(sug) == IF sug.ranked # <<>> THEN sug.ranked[1].score ELSE 0

\* the suggestion is marked moved, the message (if it was still in its
\* source folder) is in the top-ranked folder, and the profile table changed
MovedAndLearned(m, sug) ==
    /\ sug.ranked # <<>>
    /\ sug.status = "decided"
    /\ sug.move_status = "moved"
    /\ location[m] = <<m[1]>> => location'[m] = sug.ranked[1].name
    /\ profiles' # profiles

\* the message stays where it is and the suggestion stays open and pending
StaysOpen(m, sug) ==
    /\ location' = location
    /\ sug.status = "open"
    /\ sug.move_status = "pending"

C19_ActiveIffUnfinishedTask ==
    /\ (\A c \in ScanCallIds : sCalls[c].pc \in {"idle", "done"})
           => (scStatus.active <=> \E t \in ScanCallIds : SUnfinished(t))
    /\ (\A c \in CallIds : rCalls[c].pc \in {"idle", "done"})
           => (rcStatus.active <=> \E t \in CallIds : Unfinished(t))

\* C20: every write to a controller's status record is made by that
\* controller while it holds its own lock.  The writes made inside
\* `async with self._lock` are those of RunBegin (run) and of ScanStart
\* (start), so every step that changes a status is one of these.
C20_StatusWrittenUnderLock ==
    [][/\ rcStatus' # rcStatus => \E c \in CallIds : RunBegin(c)
       /\ scStatus' # scStatus => \E c \in ScanCallIds : ScanStart(c)]_vars

\* C18: no tag that tag resolution returns is or contains a placeholder
\* token (NAME, YYYY, ...), also when the reply echoes the placeholder as
\* the whole tag.  Of the tag words of the model, "NAME", "kunde-NAME" and
\* "datum-YYYY" hold such a token.
C18_NoPlaceholderInTags ==
    cls.phase = "done"
        => \A i \in 1..Len(cls.result.tags) :
               cls.result.tags[i] \notin {"NAME", "kunde-NAME", "datum-YYYY"}

\* C14: when the scan inside run() fails with an ordinary error, run() ends
\* with that error (neither Busy nor Cancelled); at that moment
\* status.last_error holds the error text, status.cancelled and
\* status.active are false, and a following run() would be accepted.
C14_ScanErrorEndsRunWithError ==
    [][\A c \in CallIds :
          (/\ rCalls[c].kind = "run"
           /\ rCalls[c].pc = "awaiting"
           /\ rCalls'[c].pc = "done"
           /\ rTasks[rCalls[c].task].out = "error")
          => /\ rCalls'[c].result = "Error"
             /\ rcStatus'.last_error = "boom"
             /\ ~rcStatus'.cancelled
             /\ ~rcStatus'.active
             /\ (rcTask' = None \/ rTasks'[rcTask'].st = "done")]_vars

\* C13: every ranked list canonicalization returns is sorted in
\* non-increasing order of rating, has at most MaxSuggestions entries and
\* has rating = round(score * 100) in every entry, whatever the input and
\* the catalog.  The ranked list of a finished call is such a list.
C13_CanonicalRankingSortedCappedRounded ==
    LET Round(score) == ((score + 50) \div 100) * 100
        Holds(ranked) ==
            /\ \A i \in 1..(Len(ranked) - 1) : ranked[i].rating >= ranked[i + 1].rating
            /\ Len(ranked) <= MaxSuggestions
            /\ \A i \in 1..Len(ranked) : ranked[i].rating = Round(ranked[i].score)
    IN  cls.phase = "done" => Holds(cls.result.ranked)

(***************************************************************************)
(* Properties of the keyword filters.  The rules up to the returned one    *)
(* (all rules when none is returned) are the rules evaluate_filters looked *)
(* at.                                                                     *)
(***************************************************************************)
\* the term condition of a rule on a message, as the rule's author reads it
TermCondition(rule, msg) ==
    LET Content(field) ==
            CASE field = "subject" -> msg.subject
              [] field = "sender" -> msg.sender
              [] OTHER -> msg.body
        Occurs(term) ==
            \E k \in 1..Len(rule.fields) : TermMatches(term, Content(rule.fields[k]))
        Terms == {rule.terms[t] : t \in 1..Len(rule.terms)}
    IN  \/ Terms = {}
        \/ rule.mode = "all" /\ \A term \in Terms : Occurs(term)
        \/ rule.mode = "any" /\ \E term \in Terms : Occurs(term)

\* C15: evaluate_filters returns the first rule, in configured order, that
\* is enabled and satisfied (date gate passed, term condition met): never a
\* disabled rule, never a rule behind an enabled satisfied one, and none
\* exactly when no enabled rule is satisfied.
C15_FirstEnabledSatisfiedRuleWins ==
    LET msg == evaluation.message
        hit == evaluation.result.rule
        Gate(rule) ==
            DateInRange(rule, msg.received,
                        IF rule.include_future_dates THEN ExtractDates(msg.body)
                        ELSE <<>>)
        Satisfied(i) ==
            filters[i].enabled /\ Gate(filters[i]) /\ TermCondition(filters[i], msg)
    IN  evaluation # NoEvaluation
            => IF hit = 0 THEN \A i \in 1..Len(filters) : ~Satisfied(i)
               ELSE /\ hit \in 1..Len(filters)
                    /\ Satisfied(hit)
                    /\ \A j \in 1..(hit - 1) : ~Satisfied(j)

\* a disabled rule that every message satisfies is passed over, and the
\* enabled rule behind it is returned
C15_Witness ==
    /\ evaluation # NoEvaluation
    /\ evaluation.result.rule = 2
    /\ ~filters[1].enabled
    /\ filters[1].terms = <<>> /\ filters[1].date_after = None
    /\ filters[1].date_before = None

\* C16: of the rules looked at whose date gate the message passes, a rule
\* of mode `all` is returned only if every term occurs in its fields, a rule
\* of mode `any` exactly when at least one term occurs, and a rule without
\* terms always.
C16_TermModes ==
    LET msg == evaluation.message
        hit == evaluation.result.rule
        LookedAt == IF hit = 0 THEN 1..Len(filters) ELSE 1..hit
        Gate(rule) ==
            DateInRange(rule, msg.received,
                        IF rule.include_future_dates THEN ExtractDates(msg.body)
                        ELSE <<>>)
        Content(rule, k) ==
            CASE rule.fields[k] = "subject" -> msg.subject
              [] rule.fields[k] = "sender" -> msg.sender
              [] OTHER -> msg.body
        Occurs(rule, t) ==
            \E k \in 1..Len(rule.fields) : TermMatches(rule.terms[t], Content(rule, k))
        Holds(i, rule) ==
            /\ (rule.terms # <<>> /\ rule.mode = "all" /\ hit = i)
                   => \A t \in 1..Len(rule.terms) : Occurs(rule, t)
            /\ (rule.terms # <<>> /\ rule.mode = "any")
                   => (hit = i <=> \E t \in 1..Len(rule.terms) : Occurs(rule, t))
            /\ rule.terms = <<>> => hit = i
    IN  evaluation # NoEvaluation
            => \A i \in LookedAt :
                   (filters[i].enabled /\ Gate(filters[i])) => Holds(i, filters[i])

\* a rule of mode `all` is passed over on a message holding one of its two
\* terms, and the rule of mode `any` behind it is returned with that term
C16_Witness ==
    /\ evaluation # NoEvaluation
    /\ Len(filters) = 2
    /\ filters[1].enabled /\ filters[1].mode = "all" /\ Len(filters[1].terms) = 2
    /\ filters[2].mode = "any" /\ filters[2].terms = filters[1].terms
    /\ evaluation.result = [rule |-> 2, matched_terms |-> <<"urgent">>]

\* C17: of the rules looked at that are enabled, do not include future
\* dates and have their term condition met, a rule with a date window is
\* returned exactly when the message has a received date within
\* [date_after, date_before], bounds included; a rule without a window,
\* including future dates or not, is returned for every message.
C17_DateWindowInclusive ==
    LET msg == evaluation.message
        hit == evaluation.result.rule
        LookedAt == IF hit = 0 THEN 1..Len(filters) ELSE 1..hit
        HasWindow(rule) == rule.date_after # None \/ rule.date_before # None
        Within(rule) ==
            /\ msg.received # <<>>
            /\ rule.date_after # None => rule.date_after <= msg.received[1]
            /\ rule.date_before # None => msg.received[1] <= rule.date_before
        Holds(i, rule) ==
            /\ (HasWindow(rule) /\ ~rule.include_future_dates) => (hit = i <=> Within(rule))
            /\ ~HasWindow(rule) => hit = i
    IN  evaluation # NoEvaluation
            => \A i \in LookedAt :
                   (filters[i].enabled /\ TermCondition(filters[i], msg))
                       => Holds(i, filters[i])

\* a message received in the last hour of date_before is matched by the
\* rule with the window
C17_Witness ==
    /\ evaluation # NoEvaluation
    /\ evaluation.result.rule = 1
    /\ filters[1].date_before # None /\ ~filters[1].include_future_dates
    /\ evaluation.message.received # <<>>
    /\ evaluation.message.received[1] = filters[1].date_before

(***************************************************************************)
(* Properties of the saved suggestions.                                    *)
(***************************************************************************)
\* C11: a saved suggestion carries a new-folder proposal only if the best
\* rating among its ranked candidates is below the creation threshold; with
\* a best rating at or above it the LLM's proposal is dropped and the handler
\* generates none.
C11_ProposalOnlyBelowCreationThreshold ==
    LET Best(ratings) == CHOOSE r \in ratings : \A q \in ratings : q <= r
        BestRating(ranked) == Best({ranked[i].rating : i \in 1..Len(ranked)} \cup {0})
    IN  \A uid \in DOMAIN suggestions :
            suggestions[uid].proposal # NoProposal
                => BestRating(suggestions[uid].ranked) < MinNewFolderScore

\* C12: in every saved suggestion the proposal's full path differs, compared
\* case-insensitively, from the name of every ranked candidate of the same
\* suggestion, for proposals of the LLM and of the handler alike.
C12_ProposalNeverDuplicatesRanked ==
    \A uid \in DOMAIN suggestions :
        suggestions[uid].proposal # NoProposal
            => \A i \in 1..Len(suggestions[uid].ranked) :
                   LowerName(suggestions[uid].ranked[i].name)
                       # LowerName(suggestions[uid].proposal.full_path)

(***************************************************************************)
(* Properties of cancellation and of the scan pass.                        *)
(***************************************************************************)
\* C21: a scan task that stop() cancels while it is suspended in an awaited
\* call of handle_message (the classification call) is not interrupted: it
\* leaves the suspension only when the awaited call completes, and a task
\* asked to cancel ends with its next step, handling no further message.
C21_CancelWaitsForInflightCall ==
    [][\A t \in CallIds :
          /\ (rTasks[t].st = "waiting" /\ rTasks[t].phase = 2
                  /\ rTasks'[t].st # "waiting") => RIoDone(t)
          /\ (rTasks[t].mustCancel /\ rTasks[t].st = "ready"
                  /\ rTasks'[t] # rTasks[t]) => rTasks'[t].st = "done"]_vars

\* C22: an ordinary error raised by handle_message does not abort the pass:
\* the pass is at its next message with its list of messages unchanged, the
\* failed message is not marked processed by that step, a message the loop
\* reaches is never one the pass skips as already handled, and the count of
\* the pass rises by one exactly in the steps that mark the current message
\* processed, so the count returned is the number of messages the pass marked.
C22_HandlerErrorDoesNotAbortPass ==
    [][\A p \in Procs :
          LET InLoop == /\ pass[p].pc \in {"next", "ensure", "move", "tag", "embed",
                                            "classify"}
                        /\ pass[p].next <= Len(pass[p].messages)
              Counts == pass'[p].processed = pass[p].processed + 1
              Raises == /\ pass[p].pc \in {"ensure", "move", "tag", "embed", "classify"}
                        /\ pass'[p].pc \notin {"ensure", "move", "tag", "embed",
                                               "classify"}
                        /\ ~Counts
          IN  (InLoop /\ pass'[p] # pass[p]) =>
                  /\ Current(p) \notin pass[p].processed_map
                  /\ Current(p)[2] \notin pass[p].known_suggestions
                  /\ IF Counts THEN processed' = processed \cup {Current(p)}
                     ELSE /\ pass'[p].processed = pass[p].processed
                          /\ processed' = processed
                  /\ Raises =>
                         /\ pass'[p].pc = "next"
                         /\ pass'[p].next = pass[p].next + 1
                         /\ pass'[p].messages = pass[p].messages
                         /\ pass'[p].folders = pass[p].folders]_vars

\* a pass whose handler raised on the first message has handled the second
\* one and counts one message
C22_Witness ==
    /\ scans = 1
    /\ \E p \in Procs :
           /\ pass[p].pc = "next"
           /\ pass[p].messages = << <<"INBOX", 1>>, <<"INBOX", 2>> >>
           /\ pass[p].next = 3
           /\ pass[p].processed = 1
    /\ processed = {<<"INBOX", 2>>}

\* C23: with the passes of the continuous controller following one another
\* on a reachable mailbox, every message that is in its scanned folder, is
\* not marked processed and has no suggestion is eventually handed to
\* handle_message (the handler is at work on it, or has returned and the
\* message is marked processed), also by passes that begin when suggestions
\* for other messages are stored.
C23_EligibleMessageEventuallyHandled ==
    \A m \in Msgs :
        (/\ location[m] = <<m[1]>>
         /\ m \notin processed
         /\ m[2] \notin DOMAIN suggestions)
            ~> (\/ m \in processed
                \/ /\ pass["scan"].pc \in {"ensure", "move", "tag", "embed", "classify"}
                   /\ Current("scan") = m)

\* C24: a pass of the continuous controller that ends, with an ordinary
\* error or with a count, leaves the finish timestamp and either the error
\* text or (last_error reset) the count in the status, leaves status.active
\* as it is and puts the task to sleep for the poll interval; and a task
\* that sleeps after a pass begins another pass unless a stop() cancels it
\* (or the passes of the model are used up): passes keep occurring while
\* the controller is not stopped.
C24_FailedPassIsRecordedAndPassesGoOn ==
    /\ [][\A t \in ScanCallIds :
             (sTasks[t].at = "scan" /\ sTasks'[t].at = "sleep") =>
                 /\ scStatus'.last_finished_at = sPasses
                 /\ scStatus'.active = scStatus.active
                 /\ sTasks'[t].st = "waiting"
                 /\ IF scStatus'.last_error = "none"
                    THEN scStatus'.last_result_count \in 0..MaxCount
                    ELSE /\ scStatus'.last_error = "boom"
                         /\ scStatus'.last_result_count = scStatus.last_result_count]_vars
    /\ \A t \in ScanCallIds :
           (sTasks[t].at = "sleep" /\ ~sTasks[t].mustCancel)
               ~> (sTasks[t].at = "scan" \/ sTasks[t].mustCancel \/ sPasses = MaxPasses)

\* C25: whenever the keyword path has moved the message to the rule's target
\* folder, the handle_message call ends with a filter hit recorded for that
\* message, whether the rule has tags or not and whatever the tagging calls
\* after the move do.
C25_MovedByRuleHasFilterHit ==
    [][\A p \in Procs :
          LET MovedByRule(m) ==
                  \/ pass[p].pc = "move" /\ location[m] # RuleTarget
                                         /\ location'[m] = RuleTarget
                  \/ pass[p].pc = "tag" /\ location[m] = RuleTarget
          IN  (pass[p].pc \in {"move", "tag"} /\ pass'[p].pc = "next"
                   /\ MovedByRule(Current(p)))
                  => filter_hits'[Current(p)] = filter_hits[Current(p)] + 1]_vars

\* C26: when ensure_folder_path fails, handle_message returns normally: the
\* message is neither moved nor tagged, no filter hit and no suggestion is
\* recorded, and the pass marks the message processed and counts it.  A
\* pass that begins later reads the mark into its snapshot and hands no
\* message of its snapshot to handle_message, so the message is not handled
\* again.
C26_EnsureFailureMarksProcessed ==
    [][\A p \in Procs :
          /\ (pass[p].pc = "ensure" /\ pass'[p].pc = "next") =>
                 /\ location' = location
                 /\ filter_hits' = filter_hits
                 /\ suggestions' = suggestions
                 /\ processed' = processed \cup {Current(p)}
                 /\ pass'[p].processed = pass[p].processed + 1
                 /\ pass'[p].next = pass[p].next + 1
          /\ (pass[p].pc = "idle" /\ pass'[p].pc = "fetch") =>
                 pass'[p].processed_map = processed
          /\ HandlerBegins(p) => Current(p) \notin pass[p].processed_map]_vars

\* message 1 was marked processed without being routed (with the HYBRID
\* module a message handled on the LLM path has a suggestion), and a pass
\* begun after that has fetched message 2 only
C26_Witness ==
    /\ settings.module = "HYBRID"
    /\ processed = {<<"INBOX", 1>>}
    /\ location[<<"INBOX", 1>>] = <<"INBOX">>
    /\ filter_hits[<<"INBOX", 1>>] = 0
    /\ suggestions = <<>>
    /\ \E p \in Procs :
           /\ pass[p].pc = "list"
           /\ pass[p].messages = << <<"INBOX", 2>> >>

(***************************************************************************)
(* Properties of the configuration caches.                                 *)
(***************************************************************************)
\* C27: a read of a cached catalog view that begins when no write is in
\* progress and ends before another write begins returns the catalog of the
\* latest write (the one in the file), never one cached from an earlier
\* catalog, also when an older read was in flight while the caches were
\* cleared.
C27_ReadAfterWriteReturnsNewConfig ==
    [][\A r \in Readers :
          (/\ cfgReads'[r].pc = "done"
           /\ cfgReads'[r] # cfgReads[r]
           /\ cfgReads'[r].quiet
           /\ cfgReads'[r].began = cfgWriter'.writes)
              => cfgReads'[r].result = cfgFile']_vars

(***************************************************************************)
(* Properties of the unmatched result.                                     *)
(***************************************************************************)
\* C28 as stated: whenever the best rating of the ranking a finished call of
\* classify_with_model arrived at is below the creation threshold
\* (MIN_NEW_FOLDER_SCORE), the call returns an empty ranked list and a
\* category with status "unmatched".
C28_BelowCreationThresholdIsCleared ==
    LET refined_ranked ==
            IF cls.chat.kind = "json"
            THEN ParseRanked(cls.chat.ranked, cls.ranked, cls.templates)
            ELSE FallbackRanked(cls.ranked, cls.templates)
    IN  ( /\ cls.phase = "done"
          /\ \A i \in 1..Len(refined_ranked) : refined_ranked[i].rating < MinNewFolderScore )
        => /\ cls.result.ranked = <<>>
           /\ cls.result.category.status = "unmatched"

\* C28: whenever the reply of the LLM was parsed and the best rating of the
\* refined ranking is below the match threshold (MIN_MATCH_SCORE), the call
\* returns an empty ranked list and a category with status "unmatched", and
\* between the match threshold and the creation threshold the refined
\* ranking is returned as it is.
C28_BelowMatchThresholdIsCleared ==
    LET refined_ranked == ParseRanked(cls.chat.ranked, cls.ranked, cls.templates)
        Below(threshold) ==
            \A i \in 1..Len(refined_ranked) : refined_ranked[i].rating < threshold
    IN  (cls.phase = "done" /\ cls.chat.kind = "json")
        => /\ Below(MinMatchScore)
               => /\ cls.result.ranked = <<>>
                  /\ cls.result.category.status = "unmatched"
                  /\ cls.result.category.matched_folder = <<>>
           /\ ~Below(MinMatchScore) => cls.result.ranked = refined_ranked

\* a parsed reply whose refined ranking is not empty and whose best rating
\* is below the match threshold, returned cleared and unmatched
C28_Witness ==
    /\ cls.phase = "done"
    /\ cls.chat.kind = "json"
    /\ LET refined_ranked == ParseRanked(cls.chat.ranked, cls.ranked, cls.templates)
       IN  /\ refined_ranked # <<>>
           /\ \A i \in 1..Len(refined_ranked) : refined_ranked[i].rating < MinMatchScore
    /\ cls.result.ranked = <<>>
    /\ cls.result.category.status = "unmatched"

(***************************************************************************)
(* Properties of canonicalization.  The ranked list of a finished call is  *)
(* an output of _canonicalize_ranked under the catalog of the call (or the *)
(* empty list).                                                            *)
(***************************************************************************)
\* C29: canonicalization is idempotent: applying _canonicalize_ranked to a
\* list it returned, under the same catalog, returns the same paths in the
\* same order with the same ratings, after an exact and after a fuzzy match.
C29_CanonicalizationIdempotent ==
    LET Same(once, twice) ==
            /\ Len(twice) = Len(once)
            /\ \A i \in 1..Len(once) :
                   /\ twice[i].name = once[i].name
                   /\ twice[i].rating = once[i].rating
    IN  cls.phase = "done"
            => Same(cls.result.ranked, CanonicalizeRanked(cls.result.ranked, cls.templates))

\* C30: with a non-empty catalog every entry of a canonicalized ranked list
\* names a catalog path (a name without a match at or above the match
\* threshold is discarded), no path appears twice, and a path reached from
\* several names of the input carries the highest of their ratings.  The
\* input is the embedding ranking of a call whose chat call gave no reply.
C30_CanonicalEntriesAreCatalogPaths ==
    LET paths == FolderCatalogPaths(cls.templates)
        out == cls.result.ranked
        Reaching(path) ==
            {i \in 1..Len(cls.ranked) :
                MatchCatalogPath(cls.ranked[i][1], CatalogIndex(cls.templates)).path = path}
        Rating(i) == NormaliseScoreValue(cls.ranked[i][2]).rating
    IN  (cls.phase = "done" /\ cls.templates # <<>>)
        => /\ \A k \in 1..Len(out) : \E j \in 1..Len(paths) : out[k].name = paths[j]
           /\ \A k, l \in 1..Len(out) : out[k].name = out[l].name => k = l
           /\ cls.chat.kind # "json"
                 => \A k \in 1..Len(out) :
                        Cardinality(Reaching(out[k].name)) > 1
                            => /\ \E i \in Reaching(out[k].name) : out[k].rating = Rating(i)
                               /\ \A i \in Reaching(out[k].name) : out[k].rating >= Rating(i)

Init == RInit /\ SInit /\ CInit /\ WInit /\ FInit /\ GInit

SpecRescan == Init /\ [][RNext]_vars

SpecScan == Init /\ [][SNext]_vars

SpecClassify == Init /\ [][CNext]_vars

SpecWorker == Init /\ [][WNext]_vars

SpecHandler == Init /\ [][HNext]_vars

SpecFilters == Init /\ [][FNext]_vars

SpecConfig == Init /\ [][GNext]_vars

SpecScanFair == Init /\ [][SNext]_vars /\ WF_vars(SLoopRuns) /\ WF_vars(SCallsComplete)

\* every awaited call of a pass completes and the event loop resumes the pass
SpecScanLoop == Init /\ [][LNext]_vars /\ WF_vars(LSteps) /\ WF_vars(ChatCallEnds)
====
